---- MODULE Spec2Model ----
(***************************************************************************)
(* Model of the next2tanstack codemod: the transform orchestration and    *)
(* route-relocation engine (scripts/codemod.ts, concatenated after the    *)
(* next-image and next-link passes in src/transforms/next-image.ts) and   *)
(* the route-renames / manual-migration-todos passes it runs.             *)
(*                                                                         *)
(* Strings are sequences of one-character strings, so that the regular     *)
(* expressions, splits and joins of the source are computed, not assumed.  *)
(* Indexes returned by string helpers are 0-based like JavaScript's, with  *)
(* -1 for "not found".                                                     *)
(***************************************************************************)
EXTENDS Integers, Sequences, FiniteSets, TLC

(***************************************************************************)
(* JavaScript string primitives                                            *)
(***************************************************************************)

\* null of a `string | null` result; no path or text is equal to it
Null == <<"<null>">>

\* JavaScript truthiness of a string | null value
Truthy(s) == s # Null /\ s # <<>>

\* F applied to the value of x: x is evaluated once, however often F uses it
Let(x, F(_)) == CHOOSE r \in {F(v) : v \in {x}} : TRUE

\* s.slice(from, to) with 0 <= from, end exclusive
Slice(s, from, to) ==
  IF to <= from THEN <<>> ELSE SubSeq(s, from + 1, IF to > Len(s) THEN Len(s) ELSE to)

\* s.slice(from)
SliceFrom(s, from) == Slice(s, from, Len(s))

\* s.startsWith(sub, i)
StartsWithAt(s, sub, i) ==
  Let(s, LAMBDA str : Let(sub, LAMBDA part :
    /\ i >= 0
    /\ i + Len(part) <= Len(str)
    /\ \A k \in 1..Len(part) : str[i + k] = part[k]))

StartsWith(s, sub) == StartsWithAt(s, sub, 0)

EndsWith(s, sub) == Len(sub) <= Len(s) /\ StartsWithAt(s, sub, Len(s) - Len(sub))

\* s.indexOf(sub)
IndexOf(s, sub) ==
  Let({i \in 0..Len(s) : StartsWithAt(s, sub, i)}, LAMBDA hits :
    IF hits = {} THEN -1 ELSE CHOOSE i \in hits : \A j \in hits : i <= j)

\* s.lastIndexOf(sub)
LastIndexOf(s, sub) ==
  Let({i \in 0..Len(s) : StartsWithAt(s, sub, i)}, LAMBDA hits :
    IF hits = {} THEN -1 ELSE CHOOSE i \in hits : \A j \in hits : i >= j)

\* s.includes(sub)
Includes(s, sub) == IndexOf(s, sub) # -1

\* index of the first character of s at or after i that lies in the set cs, or -1
FirstIn(s, cs, i) ==
  Let(s, LAMBDA str :
  Let({k \in i..(Len(str) - 1) : str[k + 1] \in cs}, LAMBDA hits :
    IF hits = {} THEN -1 ELSE CHOOSE k \in hits : \A j \in hits : k <= j))

\* s.split(/[<seps>]/): the pieces between separator characters, empty ones kept
RECURSIVE Split(_, _)
Split(s, seps) ==
  Let(s, LAMBDA str : Let(FirstIn(str, seps, 0), LAMBDA k :
    IF k = -1 THEN <<str>>
    ELSE <<Slice(str, 0, k)>> \o Split(SliceFrom(str, k + 1), seps)))

\* segs.join(sep)
RECURSIVE Join(_, _)
Join(segs, sep) ==
  Let(segs, LAMBDA list :
    IF list = <<>> THEN <<>>
    ELSE IF Len(list) = 1 THEN list[1]
    ELSE list[1] \o sep \o Join(Tail(list), sep))

\* segs.filter(Boolean)
RECURSIVE FilterBoolean(_)
FilterBoolean(segs) ==
  Let(segs, LAMBDA list :
    IF list = <<>> THEN <<>>
    ELSE IF list[1] = <<>> THEN FilterBoolean(Tail(list))
    ELSE <<list[1]>> \o FilterBoolean(Tail(list)))

\* s.replace(/^[<cs>]+/, "")
StripLeading(s, cs) ==
  Let(s, LAMBDA str : Let({k \in 1..Len(str) : str[k] \notin cs}, LAMBDA kept :
    IF kept = {} THEN <<>>
    ELSE SubSeq(str, CHOOSE k \in kept : \A j \in kept : k <= j, Len(str))))

\* s.replace(/[<cs>]+$/, "")
StripTrailing(s, cs) ==
  Let(s, LAMBDA str : Let({k \in 1..Len(str) : str[k] \notin cs}, LAMBDA kept :
    IF kept = {} THEN <<>>
    ELSE SubSeq(str, 1, CHOOSE k \in kept : \A j \in kept : k >= j)))

\* s.trim()
Trim(s) == StripTrailing(StripLeading(s, {" "}), {" "})

\* where suf begins in the match of pre [^stop]+ suf at index i of str, or -1
BracketedAt(str, pre, stop, suf, i) ==
  Let(IF StartsWithAt(str, pre, i) THEN FirstIn(str, {stop}, i + Len(pre)) ELSE -1, LAMBDA j :
    IF j > i + Len(pre) /\ StartsWithAt(str, suf, j) THEN j ELSE -1)

\* global replace of pre [^stop]+ suf (suf begins with the character stop) by
\* rep followed, when keep, by the text the class matched: the shape of the four
\* segment regular expressions of the source.  The class cannot cross a stop
\* character, so a match at i exists iff the first stop after the prefix is
\* preceded by at least one character and begins suf.
RECURSIVE ReplaceBracketed(_, _, _, _, _, _)
ReplaceBracketed(s, pre, stop, suf, rep, keep) ==
  Let(s, LAMBDA str :
  Let({i \in 0..(Len(str) - 1) : BracketedAt(str, pre, stop, suf, i) # -1}, LAMBDA hits :
    IF hits = {} THEN str
    ELSE
  Let(CHOOSE i \in hits : \A k \in hits : i <= k, LAMBDA i :
  Let(BracketedAt(str, pre, stop, suf, i), LAMBDA j :
    Slice(str, 0, i) \o rep \o (IF keep THEN Slice(str, i + Len(pre), j) ELSE <<>>)
      \o ReplaceBracketed(SliceFrom(str, j + Len(suf)), pre, stop, suf, rep, keep)))))

\* /^pre [^stop]+ suf$/.test(s), with the text the class matched
BracketedWhole(s, pre, stop, suf) ==
  Let(s, LAMBDA str : Let(FirstIn(str, {stop}, Len(pre)), LAMBDA j :
    /\ StartsWith(str, pre)
    /\ j > Len(pre)
    /\ j + Len(suf) = Len(str)
    /\ StartsWithAt(str, suf, j)))

BracketedGroup(s, pre, stop) == Slice(s, Len(pre), FirstIn(s, {stop}, Len(pre)))

(***************************************************************************)
(* Path helpers of scripts/codemod.ts                                      *)
(***************************************************************************)

\* the (tsx|jsx|ts|js) alternatives of the filename regular expressions
Exts == {<<"t","s","x">>, <<"j","s","x">>, <<"t","s">>, <<"j","s">>}

\* /^<name>\.(tsx|jsx|ts|js)$/.test(base)
IsNamed(base, name) == \E e \in Exts : base = name \o <<".">> \o e

\* /\.(tsx|jsx|ts|js)$/.test(s)
HasSourceExt(s) == \E e \in Exts : EndsWith(s, <<".">> \o e)

normalizePath(value) ==
  Let(value, LAMBDA str :
    IF str = <<>> THEN <<>>
    ELSE SubSeq([i \in 1..Len(str) |-> IF str[i] = "\\" THEN "/" ELSE str[i]], 1, Len(str)))

trimTrailingSlash(value) == StripTrailing(value, {"/"})

dirname(value) ==
  Let(normalizePath(value), LAMBDA normalized :
  Let(LastIndexOf(normalized, <<"/">>), LAMBDA idx :
    IF idx = -1 THEN <<".">> ELSE Slice(normalized, 0, idx)))

normalizeRoutesDirectory(value) ==
  StripTrailing(StripLeading(Trim(value), {".", "/", "\\"}), {"\\", "/"})

normalizeAppDirectory(value) ==
  StripTrailing(StripLeading(Trim(value), {".", "/", "\\"}), {"\\", "/"})

normalizeDirSegments(value) == FilterBoolean(Split(normalizePath(value), {"/"}))

findSubPathIndex(haystack, needle) ==
  IF Len(needle) = 0 \/ Len(needle) > Len(haystack) THEN -1
  ELSE
    LET hits == {i \in 0..(Len(haystack) - Len(needle)) :
                   \A j \in 0..(Len(needle) - 1) : haystack[i + j + 1] = needle[j + 1]}
    IN IF hits = {} THEN -1 ELSE CHOOSE i \in hits : \A k \in hits : i <= k

\* a faulty route-group test that no segment passes
IsRouteGroupSegmentNever(segment) == FALSE

\* /^\([^)]+\)$/.test(segment)
IsRouteGroupSegment(segment) == BracketedWhole(segment, <<"(">>, ")", <<")">>)

\* /^_[^/\\]+$/.test(segment)
IsPrivateSegment(segment) ==
  /\ Len(segment) >= 2
  /\ segment[1] = "_"
  /\ \A k \in 2..Len(segment) : segment[k] \notin {"/", "\\"}

\* a faulty parallel-route test that no segment passes
IsParallelSegmentNever(segment) == FALSE

\* /^@[^/\\]+$/.test(segment)
IsParallelSegment(segment) ==
  /\ Len(segment) >= 2
  /\ segment[1] = "@"
  /\ \A k \in 2..Len(segment) : segment[k] \notin {"/", "\\"}

\* a faulty mapRouteSegment that treats an optional catch-all as a dynamic
\* segment
mapRouteSegmentOptionalAsDynamic(segment) ==
  IF BracketedWhole(segment, <<"(">>, ")", <<")">>)
    THEN <<"_">> \o BracketedGroup(segment, <<"(">>, ")")
  ELSE IF BracketedWhole(segment, <<"[",".",".",".">>, "]", <<"]">>) THEN <<"$">>
  ELSE IF BracketedWhole(segment, <<"[">>, "]", <<"]">>)
    THEN <<"$">> \o BracketedGroup(segment, <<"[">>, "]")
  ELSE segment

mapRouteSegment(segment) ==
  IF BracketedWhole(segment, <<"(">>, ")", <<")">>)
    THEN <<"_">> \o BracketedGroup(segment, <<"(">>, ")")
  ELSE IF BracketedWhole(segment, <<"[","[",".",".",".">>, "]", <<"]","]">>) THEN <<"$">>
  ELSE IF BracketedWhole(segment, <<"[",".",".",".">>, "]", <<"]">>) THEN <<"$">>
  ELSE IF BracketedWhole(segment, <<"[">>, "]", <<"]">>)
    THEN <<"$">> \o BracketedGroup(segment, <<"[">>, "]")
  ELSE segment

\* base.replace(/^<name>\./, <to>): the name is replaced, the extension kept
Renamed(base, name, to) == to \o SliceFrom(base, Len(name))

\* a faulty mapRouteFilename that takes every layout for the root layout
mapRouteFilenameRootAlways(base, isRootLayout) ==
  IF IsNamed(base, <<"p","a","g","e">>) THEN Renamed(base, <<"p","a","g","e">>, <<"i","n","d","e","x">>)
  ELSE IF IsNamed(base, <<"l","a","y","o","u","t">>) THEN Renamed(base, <<"l","a","y","o","u","t">>, <<"_","_","r","o","o","t">>)
  ELSE IF IsNamed(base, <<"l","o","a","d","i","n","g">>) THEN Renamed(base, <<"l","o","a","d","i","n","g">>, <<"-","p","e","n","d","i","n","g">>)
  ELSE IF IsNamed(base, <<"e","r","r","o","r">>) THEN Renamed(base, <<"e","r","r","o","r">>, <<"-","e","r","r","o","r">>)
  ELSE IF IsNamed(base, <<"n","o","t","-","f","o","u","n","d">>) THEN Renamed(base, <<"n","o","t","-","f","o","u","n","d">>, <<"-","n","o","t","-","f","o","u","n","d">>)
  ELSE IF IsNamed(base, <<"t","e","m","p","l","a","t","e">>) THEN Renamed(base, <<"t","e","m","p","l","a","t","e">>, <<"-","t","e","m","p","l","a","t","e">>)
  ELSE IF IsNamed(base, <<"d","e","f","a","u","l","t">>) THEN Renamed(base, <<"d","e","f","a","u","l","t">>, <<"-","d","e","f","a","u","l","t">>)
  ELSE IF IsNamed(base, <<"r","o","u","t","e">>) THEN base
  ELSE Null

mapRouteFilename(base, isRootLayout) ==
  IF IsNamed(base, <<"p","a","g","e">>) THEN Renamed(base, <<"p","a","g","e">>, <<"i","n","d","e","x">>)
  ELSE IF IsNamed(base, <<"l","a","y","o","u","t">>)
    THEN Renamed(base, <<"l","a","y","o","u","t">>, IF isRootLayout THEN <<"_","_","r","o","o","t">> ELSE <<"_","l","a","y","o","u","t">>)
  ELSE IF IsNamed(base, <<"l","o","a","d","i","n","g">>) THEN Renamed(base, <<"l","o","a","d","i","n","g">>, <<"-","p","e","n","d","i","n","g">>)
  ELSE IF IsNamed(base, <<"e","r","r","o","r">>) THEN Renamed(base, <<"e","r","r","o","r">>, <<"-","e","r","r","o","r">>)
  ELSE IF IsNamed(base, <<"n","o","t","-","f","o","u","n","d">>) THEN Renamed(base, <<"n","o","t","-","f","o","u","n","d">>, <<"-","n","o","t","-","f","o","u","n","d">>)
  ELSE IF IsNamed(base, <<"t","e","m","p","l","a","t","e">>) THEN Renamed(base, <<"t","e","m","p","l","a","t","e">>, <<"-","t","e","m","p","l","a","t","e">>)
  ELSE IF IsNamed(base, <<"d","e","f","a","u","l","t">>) THEN Renamed(base, <<"d","e","f","a","u","l","t">>, <<"-","d","e","f","a","u","l","t">>)
  ELSE IF IsNamed(base, <<"r","o","u","t","e">>) THEN base
  ELSE Null

\* segments.map(mapRouteSegment)
MapSegments(segments) == [i \in 1..Len(segments) |-> mapRouteSegment(segments[i])]

\* a faulty deriver that gives a target that is the file's own path
computeTanstackTargetPathToItself(filename, runtimeConfig) ==
  IF ~HasSourceExt(filename) THEN Null
  ELSE IF Includes(filename, <<"n","o","d","e","_","m","o","d","u","l","e","s">>) THEN Null
  ELSE
    Let(Split(filename, {"/", "\\"}), LAMBDA segments :
    Let(normalizeDirSegments(runtimeConfig.appDirectory), LAMBDA appDirSegments :
    Let(findSubPathIndex(segments, appDirSegments), LAMBDA appIndex :
    Let(FilterBoolean(Split(runtimeConfig.routesDirectory, {"/", "\\"})),
        LAMBDA routesDirSegments :
      LET sep == IF Includes(filename, <<"\\">>) THEN <<"\\">> ELSE <<"/">>
          appEndIndex == appIndex + Len(appDirSegments)
          fileBase == segments[Len(segments)]
          relativeRouteSegments == Slice(segments, appEndIndex, Len(segments) - 1)
          rel == {relativeRouteSegments[i] : i \in 1..Len(relativeRouteSegments)}
          hasPrivateSegment == \E s \in rel : IsPrivateSegment(s)
          hasParallelSegment == \E s \in rel : IsParallelSegment(s)
          hasRouteGroupSegment == \E s \in rel : IsRouteGroupSegment(s)
          isGroupOnlyBranch ==
            Len(relativeRouteSegments) > 0 /\ \A s \in rel : IsRouteGroupSegment(s)
          isLayoutLikeFile == IsNamed(fileBase, <<"l","a","y","o","u","t">>) \/ IsNamed(fileBase, <<"t","e","m","p","l","a","t","e">>)
          isRootLayout == Len(relativeRouteSegments) = 0 /\ IsNamed(fileBase, <<"l","a","y","o","u","t">>)
      IN IF Len(segments) < 2 THEN Null
         ELSE IF appIndex = -1 THEN Null
         ELSE IF appEndIndex >= Len(segments) THEN Null
         ELSE IF fileBase = <<>> THEN Null
         ELSE IF hasPrivateSegment \/ hasParallelSegment THEN Null
         ELSE IF hasRouteGroupSegment /\ isLayoutLikeFile /\ ~isGroupOnlyBranch THEN Null
         ELSE
           Let(mapRouteFilename(fileBase, isRootLayout), LAMBDA mappedBase :
             IF mappedBase = Null THEN Null
             ELSE IF Len(routesDirSegments) = 0 THEN Null
             ELSE
               Let(Join(Slice(segments, 0, appIndex) \o routesDirSegments
                          \o MapSegments(relativeRouteSegments) \o <<mappedBase>>, sep),
                   LAMBDA targetPath :
                     targetPath))))))

\* the Route Path Deriver: the target path, or Null for "not eligible"
computeTanstackTargetPath(filename, runtimeConfig) ==
  IF ~HasSourceExt(filename) THEN Null
  ELSE IF Includes(filename, <<"n","o","d","e","_","m","o","d","u","l","e","s">>) THEN Null
  ELSE
    Let(Split(filename, {"/", "\\"}), LAMBDA segments :
    Let(normalizeDirSegments(runtimeConfig.appDirectory), LAMBDA appDirSegments :
    Let(findSubPathIndex(segments, appDirSegments), LAMBDA appIndex :
    Let(FilterBoolean(Split(runtimeConfig.routesDirectory, {"/", "\\"})),
        LAMBDA routesDirSegments :
      LET sep == IF Includes(filename, <<"\\">>) THEN <<"\\">> ELSE <<"/">>
          appEndIndex == appIndex + Len(appDirSegments)
          fileBase == segments[Len(segments)]
          relativeRouteSegments == Slice(segments, appEndIndex, Len(segments) - 1)
          rel == {relativeRouteSegments[i] : i \in 1..Len(relativeRouteSegments)}
          hasPrivateSegment == \E s \in rel : IsPrivateSegment(s)
          hasParallelSegment == \E s \in rel : IsParallelSegment(s)
          hasRouteGroupSegment == \E s \in rel : IsRouteGroupSegment(s)
          isGroupOnlyBranch ==
            Len(relativeRouteSegments) > 0 /\ \A s \in rel : IsRouteGroupSegment(s)
          isLayoutLikeFile == IsNamed(fileBase, <<"l","a","y","o","u","t">>) \/ IsNamed(fileBase, <<"t","e","m","p","l","a","t","e">>)
          isRootLayout == Len(relativeRouteSegments) = 0 /\ IsNamed(fileBase, <<"l","a","y","o","u","t">>)
      IN IF Len(segments) < 2 THEN Null
         ELSE IF appIndex = -1 THEN Null
         ELSE IF appEndIndex >= Len(segments) THEN Null
         ELSE IF fileBase = <<>> THEN Null
         ELSE IF hasPrivateSegment \/ hasParallelSegment THEN Null
         ELSE IF hasRouteGroupSegment /\ isLayoutLikeFile /\ ~isGroupOnlyBranch THEN Null
         ELSE
           Let(mapRouteFilename(fileBase, isRootLayout), LAMBDA mappedBase :
             IF mappedBase = Null THEN Null
             ELSE IF Len(routesDirSegments) = 0 THEN Null
             ELSE
               Let(Join(Slice(segments, 0, appIndex) \o routesDirSegments
                          \o MapSegments(relativeRouteSegments) \o <<mappedBase>>, sep),
                   LAMBDA targetPath :
                     IF normalizePath(targetPath) = normalizePath(filename) THEN Null
                     ELSE targetPath))))))

\* the four global segment rewrites shared by the pass and the checker:
\* (name) -> _name, [[...name]] -> $, [...name] -> $, [name] -> $name
RewriteSegmentSyntax(path) ==
  ReplaceBracketed(
    ReplaceBracketed(
      ReplaceBracketed(
        ReplaceBracketed(path, <<"(">>, ")", <<")">>, <<"_">>, TRUE),
        <<"[","[",".",".",".">>, "]", <<"]","]">>, <<"$">>, FALSE),
      <<"[",".",".",".">>, "]", <<"]">>, <<"$">>, FALSE),
    <<"[">>, "]", <<"]">>, <<"$">>, TRUE)

\* the special names of /(page|layout|loading|error|not-found|template|route)\./
RouteFileNames ==
  {<<"p","a","g","e">>, <<"l","a","y","o","u","t">>, <<"l","o","a","d","i","n","g">>, <<"e","r","r","o","r">>, <<"n","o","t","-","f","o","u","n","d">>, <<"t","e","m","p","l","a","t","e">>, <<"r","o","u","t","e">>}

\* s.replace(/\/$/, "")
StripOneSlash(s) == IF s # <<>> /\ s[Len(s)] = "/" THEN SubSeq(s, 1, Len(s) - 1) ELSE s

\* a faulty checker path that keeps the segments as Next.js writes them
computeExpectedRoutePathUnrewritten(filename, runtimeConfig) ==
  Let(FilterBoolean(Split(normalizePath(filename), {"/"})), LAMBDA segments :
  Let(normalizeDirSegments(runtimeConfig.appDirectory), LAMBDA appDirSegments :
  Let(findSubPathIndex(segments, appDirSegments), LAMBDA appIndex :
    LET appEndIndex == appIndex + Len(appDirSegments)
        relativeSegments == SliceFrom(segments, appEndIndex)
        withoutFilename == Slice(relativeSegments, 0, Len(relativeSegments) - 1)
        filenamePart == relativeSegments[Len(relativeSegments)]
        strippedFilename ==
          IF \E n \in RouteFileNames : IsNamed(filenamePart, n) THEN <<>> ELSE filenamePart
        joined ==
          StripOneSlash(Join(FilterBoolean(withoutFilename \o <<strippedFilename>>), <<"/">>))
    IN IF appIndex = -1 THEN Null
       ELSE IF Len(relativeSegments) = 0 THEN Null
       ELSE IF relativeSegments[1] = <<"a","p","i">> THEN Null
       ELSE
         Let(joined, LAMBDA rewritten :
         Let(StripOneSlash(IF StartsWith(rewritten, <<"/">>) THEN rewritten
                           ELSE <<"/">> \o rewritten),
             LAMBDA routePath : IF routePath = <<>> THEN <<"/">> ELSE routePath)))))

\* the route path the invariant checker expects, from the original path
computeExpectedRoutePathFromSourcePath(filename, runtimeConfig) ==
  Let(FilterBoolean(Split(normalizePath(filename), {"/"})), LAMBDA segments :
  Let(normalizeDirSegments(runtimeConfig.appDirectory), LAMBDA appDirSegments :
  Let(findSubPathIndex(segments, appDirSegments), LAMBDA appIndex :
    LET appEndIndex == appIndex + Len(appDirSegments)
        relativeSegments == SliceFrom(segments, appEndIndex)
        withoutFilename == Slice(relativeSegments, 0, Len(relativeSegments) - 1)
        filenamePart == relativeSegments[Len(relativeSegments)]
        strippedFilename ==
          IF \E n \in RouteFileNames : IsNamed(filenamePart, n) THEN <<>> ELSE filenamePart
        joined ==
          StripOneSlash(Join(FilterBoolean(withoutFilename \o <<strippedFilename>>), <<"/">>))
    IN IF appIndex = -1 THEN Null
       ELSE IF Len(relativeSegments) = 0 THEN Null
       ELSE IF relativeSegments[1] = <<"a","p","i">> THEN Null
       ELSE
         Let(RewriteSegmentSyntax(joined), LAMBDA rewritten :
         Let(StripOneSlash(IF StartsWith(rewritten, <<"/">>) THEN rewritten
                           ELSE <<"/">> \o rewritten),
             LAMBDA routePath : IF routePath = <<>> THEN <<"/">> ELSE routePath)))))

isRootRouteTarget(path) ==
  \E e \in Exts : EndsWith(normalizePath(path), <<"/","_","_","r","o","o","t",".">> \o e)

(***************************************************************************)
(* State                                                                   *)
(***************************************************************************)

VARIABLES
  world,               \* what the process is started with and never writes (see InitWorld)
  files,               \* source files on disk: canonical path -> text
  dirs,                \* directories on disk: set of canonical paths
  routesDirCache,      \* routesDirCache: project root guess -> routes directory
  projectConfigCache,  \* projectConfigCache: directory -> loaded project config
  hasLoggedDeleteWarning,
  hasLoggedConfigWarning,
  console,             \* the warnings the process has written with console.warn, in order
  run,                 \* which sweep of the batch driver over the file set (1 or 2)
  todo,                \* files the current sweep has still to hand to transform
  clean,               \* no transform of the first sweep raised
  last,                \* record of the latest transform call (see NoCall, Transform)
  pipelines            \* the transform calls under way when the driver runs them concurrently

vars ==
  <<world, files, dirs, routesDirCache, projectConfigCache, hasLoggedDeleteWarning,
    hasLoggedConfigWarning, console, run, todo, clean, last, pipelines>>

(***************************************************************************)
(* Filesystem (fs/promises as the code uses it).  A path names the same    *)
(* entry whatever its separators, empty or "." segments: entries are keyed *)
(* by the canonical path.  Relative paths hang off the working directory,  *)
(* whose canonical path is the empty string.                               *)
(***************************************************************************)

RECURSIVE DropDots(_)
DropDots(segs) ==
  Let(segs, LAMBDA list :
    IF list = <<>> THEN <<>>
    ELSE IF list[1] = <<".">> \/ list[1] = <<>> THEN DropDots(Tail(list))
    ELSE <<list[1]>> \o DropDots(Tail(list)))

Canon(path) ==
  Let(normalizePath(path), LAMBDA n :
    (IF StartsWith(n, <<"/">>) THEN <<"/">> ELSE <<>>)
      \o Join(DropDots(Split(n, {"/"})), <<"/">>))

\* the directory holding the entry with canonical path c
ParentOf(c) ==
  Let(LastIndexOf(c, <<"/">>), LAMBDA idx :
    IF idx = -1 THEN <<>> ELSE IF idx = 0 THEN <<"/">> ELSE Slice(c, 0, idx))

\* the working directory and the filesystem root always exist
IsTopDir(c) == c = <<>> \/ c = <<"/">>

\* c and every directory above it, below the top
RECURSIVE DirChain(_)
DirChain(c) ==
  Let(c, LAMBDA dir : IF IsTopDir(dir) THEN {} ELSE {dir} \cup DirChain(ParentOf(dir)))

\* fsp.access(path) succeeds: a source file or a configuration file is there
existsFile(fs, path) ==
  Canon(path) \in DOMAIN fs.files \/ Canon(path) \in DOMAIN world.confFiles

\* fsp.readdir(path): the entries directly inside the directory
ReadDir(fs, path) ==
  Let(Canon(path), LAMBDA dir :
    {c \in (DOMAIN fs.files) \cup (DOMAIN world.confFiles) \cup fs.dirs :
       ParentOf(c) = dir})

\* the four mutating calls; each appends itself to fs.ops
Mkdir(fs, path) ==
  [fs EXCEPT !.dirs = @ \cup DirChain(Canon(path)),
             !.ops = Append(@, [op |-> "mkdir", path |-> Canon(path)])]

WriteFile(fs, path, text) ==
  [fs EXCEPT !.files = [c \in (DOMAIN @) \cup {Canon(path)} |->
                          IF c = Canon(path) THEN text ELSE @[c]],
             !.ops = Append(@, [op |-> "write", path |-> Canon(path)])]

Unlink(fs, path) ==
  [fs EXCEPT !.files = [c \in (DOMAIN @) \ {Canon(path)} |-> @[c]],
             !.ops = Append(@, [op |-> "delete", path |-> Canon(path)])]

RmDir(fs, path) ==
  [fs EXCEPT !.dirs = @ \ {Canon(path)},
             !.ops = Append(@, [op |-> "rmdir", path |-> Canon(path)])]

(***************************************************************************)
(* File Relocation Transactor                                              *)
(***************************************************************************)

\* a faulty tryDeleteFile that warns at every call without a delete API
tryDeleteFileWarnsEachTime(fs, path) ==
  IF world.caps.unlink \/ world.caps.rm THEN Unlink(fs, path)
  ELSE [fs EXCEPT !.hasLoggedDeleteWarning = TRUE,
                  !.console = Append(@, "Delete API unavailable")]

\* unlink when the runtime has it, else rm, else warn once and keep the file
tryDeleteFile(fs, path) ==
  IF world.caps.unlink \/ world.caps.rm THEN Unlink(fs, path)
  ELSE IF ~fs.hasLoggedDeleteWarning
    THEN [fs EXCEPT !.hasLoggedDeleteWarning = TRUE,
                    !.console = Append(@, "Delete API unavailable")]
  ELSE fs

\* a faulty tryDeleteDirIfEmpty that does not read the directory first
tryDeleteDirUnread(fs, path) ==
  IF Canon(path) \notin fs.dirs THEN [ok |-> FALSE, fs |-> fs]
  ELSE IF Canon(path) \in world.rmFails THEN [ok |-> FALSE, fs |-> fs]
  ELSE [ok |-> TRUE, fs |-> RmDir(fs, path)]

\* [ok, fs]: the directory was empty and its removal succeeded
tryDeleteDirIfEmpty(fs, path) ==
  IF Canon(path) \notin fs.dirs THEN [ok |-> FALSE, fs |-> fs]
  ELSE IF ReadDir(fs, path) # {} THEN [ok |-> FALSE, fs |-> fs]
  ELSE IF Canon(path) \in world.rmFails THEN [ok |-> FALSE, fs |-> fs]
  ELSE [ok |-> TRUE, fs |-> RmDir(fs, path)]

\* the while loop of pruneEmptyRouteDirs
RECURSIVE PruneLoop(_, _, _)
PruneLoop(fs, currentDir, appPath) ==
  IF /\ currentDir # <<>>
     /\ currentDir # <<".">>
     /\ currentDir # appPath
     /\ StartsWith(currentDir, appPath \o <<"/">>)
  THEN LET r == tryDeleteDirIfEmpty(fs, currentDir)
       IN IF ~r.ok THEN r.fs ELSE PruneLoop(r.fs, dirname(currentDir), appPath)
  ELSE fs

pruneEmptyRouteDirs(fs, movedFromFilePath, appDirectory) ==
  LET normalizedFilePath == normalizePath(movedFromFilePath)
      segments == FilterBoolean(Split(normalizedFilePath, {"/"}))
      appSegments == normalizeDirSegments(appDirectory)
      appIndex == findSubPathIndex(segments, appSegments)
      appPath == Join(Slice(segments, 0, appIndex + Len(appSegments)), <<"/">>)
  IN IF appIndex = -1 THEN fs
     ELSE PruneLoop(fs, dirname(normalizedFilePath), appPath)

\* the delete-and-prune tail shared by both branches: [error, fs]
DeleteOriginal(fs, oldPath, appDirectory) ==
  IF ~existsFile(fs, oldPath) THEN [error |-> "none", fs |-> fs]
  ELSE IF world.ioFails = "unlink" /\ (world.caps.unlink \/ world.caps.rm)
    THEN [error |-> "io", fs |-> fs]
  ELSE [error |-> "none",
        fs |-> pruneEmptyRouteDirs(tryDeleteFile(fs, oldPath), oldPath, appDirectory)]

\* a faulty writeMovedFileAndDeleteOriginal that writes over whatever is at newPath
writeMovedFileOverwriting(fs, oldPath, newPath, output, appDirectory) ==
  IF normalizePath(oldPath) = normalizePath(newPath) THEN [error |-> "none", fs |-> fs]
  ELSE DeleteOriginal(WriteFile(Mkdir(fs, dirname(newPath)), newPath, output),
                      oldPath, appDirectory)

\* a faulty writeMovedFileAndDeleteOriginal that deletes the source before it
\* writes the destination
writeMovedFileDeletingFirst(fs, oldPath, newPath, output, appDirectory) ==
  IF normalizePath(oldPath) = normalizePath(newPath) THEN [error |-> "none", fs |-> fs]
  ELSE IF existsFile(fs, newPath)
  THEN IF world.caps.readFile /\ Canon(newPath) \in DOMAIN fs.files
            /\ fs.files[Canon(newPath)] = output
       THEN DeleteOriginal(fs, oldPath, appDirectory)
       ELSE [error |-> "conflict", fs |-> fs]
  ELSE Let(DeleteOriginal(fs, oldPath, appDirectory), LAMBDA deleted :
         IF deleted.error # "none" THEN deleted
         ELSE IF world.ioFails = "mkdir" THEN [error |-> "io", fs |-> deleted.fs]
         ELSE IF world.ioFails = "writeFile"
           THEN [error |-> "io", fs |-> Mkdir(deleted.fs, dirname(newPath))]
         ELSE [error |-> "none",
               fs |-> WriteFile(Mkdir(deleted.fs, dirname(newPath)), newPath, output)])

\* [error, fs]: error is "none", "conflict" (the thrown "Refusing to overwrite")
\* or "io" (the rejection of the fs call world.ioFails names: mkdir; writeFile,
\* which then leaves nothing at newPath or, "truncated", an empty file; unlink)
writeMovedFileAndDeleteOriginal(fs, oldPath, newPath, output, appDirectory) ==
  IF normalizePath(oldPath) = normalizePath(newPath) THEN [error |-> "none", fs |-> fs]
  ELSE IF existsFile(fs, newPath)
  THEN IF world.caps.readFile /\ Canon(newPath) \in DOMAIN fs.files
            /\ fs.files[Canon(newPath)] = output
       THEN DeleteOriginal(fs, oldPath, appDirectory)
       ELSE [error |-> "conflict", fs |-> fs]
  ELSE IF world.ioFails = "mkdir" THEN [error |-> "io", fs |-> fs]
  ELSE IF world.ioFails = "writeFile"
    THEN [error |-> "io", fs |-> Mkdir(fs, dirname(newPath))]
  ELSE IF world.ioFails = "truncated"
    THEN [error |-> "io", fs |-> WriteFile(Mkdir(fs, dirname(newPath)), newPath, <<>>)]
  ELSE DeleteOriginal(WriteFile(Mkdir(fs, dirname(newPath)), newPath, output),
                      oldPath, appDirectory)
(***************************************************************************)
(* Config Resolver                                                         *)
(***************************************************************************)

MIGRATION_IDS ==
  <<"next-image", "next-link", "next-server-functions", "manual-migration-todos",
    "next-use-client", "route-file-structure", "route-groups", "api-routes">>

MigrationIdSet == {MIGRATION_IDS[i] : i \in 1..Len(MIGRATION_IDS)}

\* {} : what readProjectConfig yields when no usable config file is found.
\* A field that is absent or of the wrong type is Null (strings), not present
\* (lists) or outside the domain (the migrations map).
EmptyConfig ==
  [routesDirectory |-> Null, appDirectory |-> Null,
   enabledMigrations |-> [present |-> FALSE, ids |-> {}],
   disabledMigrations |-> [present |-> FALSE, ids |-> {}],
   migrations |-> <<>>]

\* the loop of readCliOption from argv[i] on (i is 1-based)
RECURSIVE ReadCliFrom(_, _, _)
ReadCliFrom(argv, name, i) ==
  LET exact == <<"-","-">> \o name
      withEq == exact \o <<"=">>
      arg == argv[i]
      next == IF i + 1 <= Len(argv) THEN argv[i + 1] ELSE Null
  IN IF i > Len(argv) THEN Null
     ELSE IF arg = <<>> THEN ReadCliFrom(argv, name, i + 1)
     ELSE IF arg = exact
       THEN IF Truthy(next) /\ ~StartsWith(next, <<"-","-">>) THEN next ELSE Null
     ELSE IF StartsWith(arg, withEq) THEN SliceFrom(arg, Len(withEq))
     ELSE ReadCliFrom(argv, name, i + 1)

readCliOption(name) == ReadCliFrom(world.argv, name, 1)

\* process.env.CODEMOD_ROUTES_DIRECTORY ?? process.env.ROUTES_DIRECTORY
EnvRoutesDirectory ==
  IF world.env.CODEMOD_ROUTES_DIRECTORY # Null THEN world.env.CODEMOD_ROUTES_DIRECTORY
  ELSE world.env.ROUTES_DIRECTORY

\* a faulty getRoutesDirectoryOverride that asks the environment before argv
getRoutesDirectoryOverrideEnvFirst ==
  LET cliValue == readCliOption(<<"r","o","u","t","e","s","-","d","i","r","e","c","t","o","r","y">>)
      envValue == EnvRoutesDirectory
  IN IF Truthy(envValue) /\ Truthy(normalizeRoutesDirectory(envValue))
       THEN normalizeRoutesDirectory(envValue)
     ELSE IF Truthy(cliValue) /\ Truthy(normalizeRoutesDirectory(cliValue))
       THEN normalizeRoutesDirectory(cliValue)
     ELSE Null

getRoutesDirectoryOverride ==
  LET cliValue == readCliOption(<<"r","o","u","t","e","s","-","d","i","r","e","c","t","o","r","y">>)
      envValue == EnvRoutesDirectory
  IN IF Truthy(cliValue) /\ Truthy(normalizeRoutesDirectory(cliValue))
       THEN normalizeRoutesDirectory(cliValue)
     ELSE IF Truthy(envValue) /\ Truthy(normalizeRoutesDirectory(envValue))
       THEN normalizeRoutesDirectory(envValue)
     ELSE Null

candidateKeys == <<"routesDirectory", "routes_directory", "routes-dir", "routesDir">>

\* the loop over candidateKeys from index i on; params maps the keys that hold a
\* string to that string
RECURSIVE OptionsOverrideFrom(_, _)
OptionsOverrideFrom(params, i) ==
  IF i > Len(candidateKeys) THEN Null
  ELSE IF candidateKeys[i] \in DOMAIN params
          /\ Truthy(normalizeRoutesDirectory(params[candidateKeys[i]]))
    THEN normalizeRoutesDirectory(params[candidateKeys[i]])
  ELSE OptionsOverrideFrom(params, i + 1)

\* options is [hasParams, params]: hasParams is false for a missing options or
\* params object
getRoutesDirectoryOverrideFromOptions(options) ==
  IF ~options.hasParams THEN Null ELSE OptionsOverrideFrom(options.params, 1)

\* a faulty isDryRun that looks at argv alone
isDryRunArgvOnly == \E i \in 1..Len(world.argv) : world.argv[i] = <<"-","-","d","r","y","-","r","u","n">>

isDryRun ==
  \/ \E i \in 1..Len(world.argv) : world.argv[i] = <<"-","-","d","r","y","-","r","u","n">>
  \/ world.env.CODEMOD_DRY_RUN = <<"1">>
  \/ world.env.DRY_RUN = <<"1">>

\* the first candidate present in currentDir, else Null
RECURSIVE FirstCandidate(_, _, _, _)
FirstCandidate(fs, currentDir, candidates, i) ==
  IF i > Len(candidates) THEN Null
  ELSE IF existsFile(fs, trimTrailingSlash(currentDir) \o <<"/">> \o candidates[i])
    THEN trimTrailingSlash(currentDir) \o <<"/">> \o candidates[i]
  ELSE FirstCandidate(fs, currentDir, candidates, i + 1)

\* the upward walk of findNearestFile from currentDir
RECURSIVE NearestFrom(_, _, _)
NearestFrom(fs, currentDir, candidates) ==
  LET found == FirstCandidate(fs, currentDir, candidates, 1)
      parent == dirname(currentDir)
  IN IF found # Null THEN found
     ELSE IF parent = <<>> \/ parent = <<".">> \/ parent = currentDir THEN Null
     ELSE NearestFrom(fs, parent, candidates)

findNearestFile(fs, startDir, candidates) ==
  NearestFrom(fs, normalizePath(startDir), candidates)

ProjectConfigNames ==
  <<<<"n","e","x","t","-","t","o","-","s","t","a","r","t",".","c","o","d","e","m","o","d",".","j","s","o","n">>, <<".","n","e","x","t","-","t","o","-","s","t","a","r","t",".","c","o","d","e","m","o","d",".","j","s","o","n">>,
    <<"n","e","x","t","-","t","o","-","s","t","a","r","t",".","c","o","d","e","m","o","d","r","c",".","j","s","o","n">>>>

ViteConfigNames ==
  <<<<"v","i","t","e",".","c","o","n","f","i","g",".","t","s">>, <<"v","i","t","e",".","c","o","n","f","i","g",".","j","s">>, <<"v","i","t","e",".","c","o","n","f","i","g",".","m","t","s">>, <<"v","i","t","e",".","c","o","n","f","i","g",".","c","t","s">>,
    <<"v","i","t","e",".","c","o","n","f","i","g",".","m","j","s">>, <<"v","i","t","e",".","c","o","n","f","i","g",".","c","j","s">>>>

\* the content of a file readTextFile cannot deliver (it returns null)
NullSource == [kind |-> "null", config |-> EmptyConfig, scanned |-> Null]

\* readTextFile: the content record of a configuration file; kind "null" when
\* the file cannot be read, and an empty file is as falsy to the callers
readTextFile(path) ==
  IF Canon(path) \notin DOMAIN world.confFiles THEN NullSource
  ELSE IF world.confFiles[Canon(path)].kind \in {"unreadable", "empty"} THEN NullSource
  ELSE world.confFiles[Canon(path)]

\* parseProjectConfigJson: [ok, value]; not ok for invalid JSON or a non-object
parseProjectConfigJson(source) ==
  IF source.kind = "json" THEN [ok |-> TRUE, value |-> source.config]
  ELSE [ok |-> FALSE, value |-> EmptyConfig]

\* the capture of /routesDirectory\s*:\s*['"`]([^'"`]+)['"`]/ trimmed, or Null
parseRoutesDirectoryFromViteConfig(source) ==
  IF source.kind # "vite" \/ source.scanned = Null THEN Null
  ELSE IF Trim(source.scanned) = <<>> THEN Null
  ELSE Trim(source.scanned)

\* a Map with key set to value
MapSet(map, key, value) ==
  [k \in (DOMAIN map) \cup {key} |-> IF k = key THEN value ELSE map[k]]

\* a faulty readProjectConfig that warns at every file it cannot parse
readProjectConfigWarnsEachTime(fs, ps, filename) ==
  Let(dirname(normalizePath(filename)), LAMBDA cacheKey :
    IF cacheKey \in DOMAIN ps.projectConfigCache
    THEN [value |-> ps.projectConfigCache[cacheKey], ps |-> ps]
    ELSE
      Let(findNearestFile(fs, cacheKey, ProjectConfigNames), LAMBDA configFile :
      Let(IF configFile = Null THEN NullSource ELSE readTextFile(configFile), LAMBDA source :
        LET parsed == parseProjectConfigJson(source)
            loaded == IF configFile = Null \/ source.kind = "null" \/ ~parsed.ok
                      THEN EmptyConfig ELSE parsed.value
            warned == configFile # Null /\ source.kind # "null" /\ ~parsed.ok
        IN [value |-> loaded,
            ps |-> [ps EXCEPT !.projectConfigCache = MapSet(@, cacheKey, loaded),
                              !.hasLoggedConfigWarning = @ \/ warned,
                              !.console = IF warned
                                          THEN Append(@, "Invalid JSON config") ELSE @]])))

\* [value, ps]: ps is the process state (the two caches and the config warning flag)
readProjectConfig(fs, ps, filename) ==
  Let(dirname(normalizePath(filename)), LAMBDA cacheKey :
    IF cacheKey \in DOMAIN ps.projectConfigCache
    THEN [value |-> ps.projectConfigCache[cacheKey], ps |-> ps]
    ELSE
      Let(findNearestFile(fs, cacheKey, ProjectConfigNames), LAMBDA configFile :
      Let(IF configFile = Null THEN NullSource ELSE readTextFile(configFile), LAMBDA source :
        LET parsed == parseProjectConfigJson(source)
            loaded == IF configFile = Null \/ source.kind = "null" \/ ~parsed.ok
                      THEN EmptyConfig ELSE parsed.value
            warned == configFile # Null /\ source.kind # "null" /\ ~parsed.ok
        IN [value |-> loaded,
            ps |-> [ps EXCEPT !.projectConfigCache = MapSet(@, cacheKey, loaded),
                              !.hasLoggedConfigWarning = @ \/ warned,
                              !.console = IF warned /\ ~ps.hasLoggedConfigWarning
                                          THEN Append(@, "Invalid JSON config") ELSE @]])))

\* a faulty resolveEnabledMigrations that applies the deny-list last
resolveEnabledMigrationsDenyLast(config) ==
  LET allowed == IF config.enabledMigrations.present /\ config.enabledMigrations.ids # {}
                 THEN config.enabledMigrations.ids \cap MigrationIdSet
                 ELSE MigrationIdSet
      known == (DOMAIN config.migrations) \cap MigrationIdSet
      forced == (allowed \cup {id \in known : config.migrations[id] = "true"})
                  \ {id \in known : config.migrations[id] = "false"}
  IN IF config.disabledMigrations.present
     THEN forced \ config.disabledMigrations.ids ELSE forced

resolveEnabledMigrations(config) ==
  LET allowed == IF config.enabledMigrations.present /\ config.enabledMigrations.ids # {}
                 THEN config.enabledMigrations.ids \cap MigrationIdSet
                 ELSE MigrationIdSet
      denied == IF config.disabledMigrations.present
                THEN allowed \ config.disabledMigrations.ids ELSE allowed
      known == (DOMAIN config.migrations) \cap MigrationIdSet
  IN (denied \cup {id \in known : config.migrations[id] = "true"})
       \ {id \in known : config.migrations[id] = "false"}

\* the app directory both resolvers derive from the project config
ConfigAppDirectory(projectConfig) ==
  IF projectConfig.appDirectory # Null
     /\ Truthy(normalizeAppDirectory(projectConfig.appDirectory))
  THEN normalizeAppDirectory(projectConfig.appDirectory)
  ELSE <<"a","p","p">>

\* [value, ps]
getConfiguredRoutesDirectory(fs, ps, filename, projectConfig, override) ==
  Let(IF projectConfig.routesDirectory # Null
      THEN normalizeRoutesDirectory(projectConfig.routesDirectory) ELSE Null,
      LAMBDA configOverride :
  IF Truthy(configOverride) THEN [value |-> configOverride, ps |-> ps]
  ELSE
  Let(IF Truthy(override) THEN override ELSE getRoutesDirectoryOverride,
      LAMBDA resolvedOverride :
  IF Truthy(resolvedOverride)
    THEN [value |-> normalizeRoutesDirectory(resolvedOverride), ps |-> ps]
  ELSE
  Let(normalizePath(filename), LAMBDA normalizedFilename :
  Let(LastIndexOf(normalizedFilename,
                  <<"/">> \o ConfigAppDirectory(projectConfig) \o <<"/">>),
      LAMBDA appMarker :
  IF appMarker = -1 THEN [value |-> <<"r","o","u","t","e","s">>, ps |-> ps]
  ELSE
  Let(IF Slice(normalizedFilename, 0, appMarker) = <<>> THEN <<".">>
      ELSE Slice(normalizedFilename, 0, appMarker),
      LAMBDA projectRootGuess :
  Let(normalizePath(projectRootGuess), LAMBDA cacheKey :
  IF cacheKey \in DOMAIN ps.routesDirCache
    THEN [value |-> ps.routesDirCache[cacheKey], ps |-> ps]
  ELSE
  Let(findNearestFile(fs, projectRootGuess, ViteConfigNames), LAMBDA configFile :
  Let(IF configFile = Null THEN NullSource ELSE readTextFile(configFile), LAMBDA source :
  Let(parseRoutesDirectoryFromViteConfig(source), LAMBDA scanned :
    LET loaded == IF configFile = Null \/ source.kind = "null" THEN <<"r","o","u","t","e","s">>
                  ELSE normalizeRoutesDirectory(IF Truthy(scanned) THEN scanned
                                                ELSE <<"r","o","u","t","e","s">>)
        warned == configFile # Null /\ source.kind = "null"
    IN [value |-> loaded,
        ps |-> [ps EXCEPT !.routesDirCache = MapSet(@, cacheKey, loaded),
                          !.hasLoggedConfigWarning = @ \/ warned,
                              !.console = IF warned /\ ~ps.hasLoggedConfigWarning
                                          THEN Append(@, "Could not read vite config") ELSE @]])))))))))

\* a faulty resolveRuntimeConfig in which options.params beat the project config
resolveRuntimeConfigParamsFirst(fs, ps, filename, options) ==
  Let(readProjectConfig(fs, ps, filename), LAMBDA pc :
  Let(getRoutesDirectoryOverrideFromOptions(options), LAMBDA optionsOverride :
  Let(getConfiguredRoutesDirectory(
        fs, pc.ps, filename,
        [pc.value EXCEPT !.routesDirectory = IF Truthy(optionsOverride) THEN Null ELSE @],
        optionsOverride),
      LAMBDA rd :
    [value |-> [routesDirectory |-> rd.value,
                appDirectory |-> ConfigAppDirectory(pc.value),
                enabledMigrations |-> resolveEnabledMigrations(pc.value)],
     ps |-> rd.ps])))

\* [value, ps]: value is the ResolvedRuntimeConfig
resolveRuntimeConfig(fs, ps, filename, options) ==
  Let(readProjectConfig(fs, ps, filename), LAMBDA pc :
  Let(getConfiguredRoutesDirectory(fs, pc.ps, filename, pc.value,
                                   getRoutesDirectoryOverrideFromOptions(options)),
      LAMBDA rd :
    [value |-> [routesDirectory |-> rd.value,
                appDirectory |-> ConfigAppDirectory(pc.value),
                enabledMigrations |-> resolveEnabledMigrations(pc.value)],
     ps |-> rd.ps]))

(***************************************************************************)
(* Source text and syntax tree.  A text is a sequence of tokens, one per   *)
(* top-level construct the passes look for; the tree the pattern matcher   *)
(* sees has one node per token (a comment is a node of its own, never part *)
(* of the statement it precedes).  A token is [k, p, c]: its kind, its     *)
(* payload (the literal route path of a createFileRoute call, the          *)
(* specifier list of an import) and the component it declares.             *)
(***************************************************************************)

Tok(k, p, c) == [k |-> k, p |-> p, c |-> c]

UseClient == Tok("useClient", <<>>, "")              \* "use client";
ImportReact == Tok("importOther", <<>>, "")          \* import React from "react"
ImportNextCache == Tok("importNextCache", <<>>, "")  \* import { revalidatePath } from "next/cache"
CallRevalidate == Tok("call", <<>>, "")              \* revalidatePath("/");
ExportDefault == Tok("exportDefault", <<>>, "")      \* export default function Page() { ... }
\* export default function whose body holds the template TODO comment
ExportDefaultWithTodo == Tok("exportDefault", <<"t","o","d","o">>, "")
\* // TODO(tanstack-migrate): manual migration required for `revalidatePath()`; ...
TodoLine == Tok("todoLine", <<>>, "")
\* // TODO: Next.js template.tsx has no direct TanStack Start equivalent. Migrate manually.
TodoTemplate == Tok("todoTemplate", <<>>, "")
\* // TODO: Parallel routes @folder need manual migration ...
TodoParallel == Tok("todoParallel", <<>>, "")
\* import { <specifiers> } from "@tanstack/react-router"
ImportTanstack(specifiers) == Tok("importTanstack", specifiers, "")
\* export const Route = createFileRoute('<path>')({ ... }) and its component
RouteDecl(path, component) == Tok("routeDecl", path, component)
\* export const Route = createRootRoute({ ... }) and its component
RootDecl(component) == Tok("rootDecl", <<>>, component)

\* node.kind() of the node of a token
NodeKind(tok) ==
  CASE tok.k \in {"useClient", "call"} -> "expression_statement"
    [] tok.k \in {"importOther", "importNextCache", "importTanstack"} -> "import_statement"
    [] tok.k \in {"exportDefault", "routeDecl", "rootDecl"} -> "export_statement"
    [] OTHER -> "comment"

\* index of the first node that passes Test, 0 when there is none (rootNode.find)
FirstWhere(text, Test(_)) ==
  LET hits == {i \in 1..Len(text) : Test(text[i])}
  IN IF hits = {} THEN 0 ELSE CHOOSE i \in hits : \A j \in hits : i <= j

\* node.text().includes("TODO: Next.js template.tsx")
HasTemplateTodo(tok) == tok.k = "todoTemplate" \/ (tok.k = "exportDefault" /\ tok.p = <<"t","o","d","o">>)

\* node.text().includes(TODO_PREFIX + message) for the revalidatePath message
HasLineTodo(tok) == tok.k = "todoLine"

\* rootNode.text().includes("Parallel routes @folder need manual migration")
HasParallelTodo(text) == \E i \in 1..Len(text) : text[i].k = "todoParallel"

\* an Edit: node.replace(text)
EditOf(node, text) == [node |-> node, text |-> text]

\* the edit commitEdits applies to node i among several: the policy on
\* duplicate targets belongs to the pattern-matching library, so both outcomes
\* are possible (world.dupPolicy)
EditFor(edits, i) ==
  LET hits == {e \in 1..Len(edits) : edits[e].node = i}
  IN IF world.dupPolicy = "last" THEN edits[CHOOSE e \in hits : \A f \in hits : e >= f]
     ELSE edits[CHOOSE e \in hits : \A f \in hits : e <= f]

\* rootNode.commitEdits(edits): every edited node's text is replaced
RECURSIVE CommitFrom(_, _, _)
CommitFrom(text, edits, i) ==
  IF i > Len(text) THEN <<>>
  ELSE (IF \E e \in 1..Len(edits) : edits[e].node = i
        THEN EditFor(edits, i).text ELSE <<text[i]>>)
       \o CommitFrom(text, edits, i + 1)

commitEdits(text, edits) ==
  Let(text, LAMBDA nodes : Let(edits, LAMBDA list : CommitFrom(nodes, list, 1)))

(***************************************************************************)
(* The route-file-structure pass (route-renames.ts)                        *)
(***************************************************************************)

\* index of /[\\/]<a>[\\/]<b>[\\/]/ in s, or -1
IndexOfDirPair(s, a, b) ==
  LET seps == {"/", "\\"}
      n == Len(a) + Len(b) + 3
      hits == {i \in 0..(Len(s) - n) :
                 /\ s[i + 1] \in seps
                 /\ StartsWithAt(s, a, i + 1)
                 /\ s[i + Len(a) + 2] \in seps
                 /\ StartsWithAt(s, b, i + Len(a) + 2)
                 /\ s[i + n] \in seps}
  IN IF hits = {} THEN -1 ELSE CHOOSE i \in hits : \A j \in hits : i <= j

\* s.replace(/input\.(tsx|jsx|ts|js)$/, "page.$1")
InputToPage(s) ==
  IF \E e \in Exts : EndsWith(s, <<"i","n","p","u","t",".">> \o e)
  THEN LET e == CHOOSE e \in Exts : EndsWith(s, <<"i","n","p","u","t",".">> \o e)
       IN Slice(s, 0, Len(s) - Len(e) - 6) \o <<"p","a","g","e",".">> \o e
  ELSE s

getEffectiveFilename(filename) ==
  LET i == IndexOfDirPair(filename, <<"t","e","s","t","s">>, <<"r","o","u","t","e","-","r","e","n","a","m","e","s">>)
  IN IF i = -1 THEN filename
     ELSE InputToPage(Slice(filename, 0, i) \o <<"/","a","p","p","/">> \o SliceFrom(filename, i + 21))

shouldSkipAutomaticRouteTransform(filename) ==
  LET normalized == normalizePath(filename)
      appIdx == IndexOf(normalized, <<"/","a","p","p","/">>)
      relSegments == FilterBoolean(Split(SliceFrom(normalized, appIdx + 5), {"/"}))
      fileBase == IF relSegments = <<>> THEN <<>> ELSE relSegments[Len(relSegments)]
      dirSegments == Slice(relSegments, 0, Len(relSegments) - 1)
      ds == {dirSegments[i] : i \in 1..Len(dirSegments)}
      isGroupOnlyBranch == Len(dirSegments) > 0 /\ \A s \in ds : IsRouteGroupSegment(s)
      isLayoutLikeFile == IsNamed(fileBase, <<"l","a","y","o","u","t">>) \/ IsNamed(fileBase, <<"t","e","m","p","l","a","t","e">>)
  IN IF appIdx = -1 THEN FALSE
     ELSE \/ \E s \in ds : IsPrivateSegment(s) \/ IsParallelSegment(s)
          \/ (\E s \in ds : IsRouteGroupSegment(s)) /\ isLayoutLikeFile /\ ~isGroupOnlyBranch

\* s.replace(/(page|layout|loading|error|not-found|template|route)\.(tsx|jsx|ts|js)$/, "")
StripRouteFile(s) ==
  LET ends == {n \o <<".">> \o e : n \in RouteFileNames, e \in Exts}
      hits == {x \in ends : EndsWith(s, x)}
  IN IF hits = {} THEN s
     ELSE LET x == CHOOSE x \in hits : \A y \in hits : Len(x) >= Len(y)
          IN Slice(s, 0, Len(s) - Len(x))

\* where /.*[\\/](src[\\/])?app[\\/]?/ ends when its separator is s[k + 1], or -1
GreedyAppEnd(s, k) ==
  LET seps == {"/", "\\"}
      a == k + 1
      e == IF StartsWithAt(s, <<"s","r","c">>, a) /\ a + 3 < Len(s) /\ s[a + 4] \in seps
              /\ StartsWithAt(s, <<"a","p","p">>, a + 4) THEN a + 7
           ELSE IF StartsWithAt(s, <<"a","p","p">>, a) THEN a + 3
           ELSE -1
  IN IF k >= Len(s) \/ s[k + 1] \notin seps \/ e = -1 THEN -1
     ELSE IF e < Len(s) /\ s[e + 1] \in seps THEN e + 1 ELSE e

\* the route path the pass writes into createFileRoute('...')
calculateTanstackRoute(filename) ==
  Let(StripOneSlash(StripRouteFile(normalizePath(filename))), LAMBDA stripped :
    LET heads == {i \in 0..(Len(stripped) - 6) :
                    /\ stripped[i + 1] \in {"/", "\\"}
                    /\ StartsWithAt(stripped, <<"a","p","p">>, i + 1)
                    /\ stripped[i + 5] \in {"/", "\\"}}
        greedy == {k \in 0..(Len(stripped) - 1) : GreedyAppEnd(stripped, k) # -1}
        afterApp ==
          IF heads # {}
            THEN SliceFrom(stripped, (CHOOSE i \in heads : \A j \in heads : i <= j) + 5)
          ELSE IF greedy # {}
            THEN SliceFrom(stripped,
                   GreedyAppEnd(stripped, CHOOSE k \in greedy : \A j \in greedy : k >= j))
          ELSE stripped
    IN Let(RewriteSegmentSyntax(afterApp), LAMBDA rewritten :
         Let(StripOneSlash(IF StartsWith(rewritten, <<"/">>) THEN rewritten
                           ELSE <<"/">> \o rewritten),
             LAMBDA path : IF path = <<>> THEN <<"/">> ELSE path)))

\* /<name>\.(tsx|jsx|ts|js)$/ : the unanchored filename tests of the pass
EndsNamed(filename, name) == \E e \in Exts : EndsWith(filename, name \o <<".">> \o e)

\* the isRootLayout of the pass: no /[\\/]app[\\/](?!.*[\\/]).*layout\./ match and
\* the path includes "app/layout." or "app\layout."
PassIsRootLayout(filename) ==
  LET seps == {"/", "\\"}
      direct == \E i \in 0..(Len(filename) - 5) :
                  /\ filename[i + 1] \in seps
                  /\ StartsWithAt(filename, <<"a","p","p">>, i + 1)
                  /\ filename[i + 5] \in seps
                  /\ FirstIn(filename, seps, i + 5) = -1
                  /\ Includes(SliceFrom(filename, i + 5), <<"l","a","y","o","u","t",".">>)
  IN ~direct /\ (Includes(filename, <<"a","p","p","/","l","a","y","o","u","t",".">>) \/ Includes(filename, <<"a","p","p","\\","l","a","y","o","u","t",".">>))

\* the specifiers already imported followed by the new ones, each once
RECURSIVE MergeSpecifiers(_, _)
MergeSpecifiers(existing, specifiers) ==
  IF specifiers = <<>> THEN existing
  ELSE IF \E i \in 1..Len(existing) : existing[i] = specifiers[1]
    THEN MergeSpecifiers(existing, Tail(specifiers))
  ELSE MergeSpecifiers(Append(existing, specifiers[1]), Tail(specifiers))

\* the edits insertAtTop pushes
insertAtTop(text, import) ==
  LET useClient == FirstWhere(text, LAMBDA t : t.k = "useClient")
      firstImport == FirstWhere(text, LAMBDA t : NodeKind(t) = "import_statement")
      firstExport == FirstWhere(text, LAMBDA t : NodeKind(t) = "export_statement")
      firstExpr == FirstWhere(text, LAMBDA t : NodeKind(t) = "expression_statement")
      firstNode == IF firstExport # 0 THEN firstExport ELSE firstExpr
  IN IF useClient # 0 THEN <<EditOf(useClient, <<text[useClient], import>>)>>
     ELSE IF firstImport # 0 THEN <<EditOf(firstImport, <<import, text[firstImport]>>)>>
     ELSE IF firstNode # 0 THEN <<EditOf(firstNode, <<import, text[firstNode]>>)>>
     ELSE <<>>

\* the edits ensureTanstackImport pushes for a non-empty specifier list
ensureTanstackImport(text, specifiers) ==
  LET tanstackImport == FirstWhere(text, LAMBDA t : t.k = "importTanstack")
      updated == ImportTanstack(MergeSpecifiers(text[tanstackImport].p, specifiers))
  IN IF specifiers = <<>> THEN <<>>
     ELSE IF tanstackImport # 0
       THEN IF updated # text[tanstackImport]
            THEN <<EditOf(tanstackImport, <<updated>>)>> ELSE <<>>
     ELSE insertAtTop(text, ImportTanstack(specifiers))

\* the edits of nextToTanstackFileStructureTransform (null is the empty list)
nextToTanstackFileStructureTransform(filename, text) ==
  Let(getEffectiveFilename(filename), LAMBDA effectiveFilename :
  Let(FirstWhere(text, LAMBDA t : t.k = "exportDefault"), LAMBDA defaultExport :
  Let(calculateTanstackRoute(effectiveFilename), LAMBDA route :
  Let(PassIsRootLayout(effectiveFilename), LAMBDA isRootLayout :
    LET isPage == EndsNamed(effectiveFilename, <<"p","a","g","e">>)
        isLayout == EndsNamed(effectiveFilename, <<"l","a","y","o","u","t">>)
        isLoading == EndsNamed(effectiveFilename, <<"l","o","a","d","i","n","g">>)
        isError == EndsNamed(effectiveFilename, <<"e","r","r","o","r">>)
        isNotFound == EndsNamed(effectiveFilename, <<"n","o","t","-","f","o","u","n","d">>)
        isTemplate == EndsNamed(effectiveFilename, <<"t","e","m","p","l","a","t","e">>)
        Replace(component) == <<EditOf(defaultExport, <<RouteDecl(route, component)>>)>>
        found == defaultExport # 0
        pageEdits == IF isPage /\ found THEN Replace("page") ELSE <<>>
        layoutEdits ==
          IF isLayout /\ found
          THEN IF isRootLayout THEN <<EditOf(defaultExport, <<RootDecl("root")>>)>>
               ELSE Replace("layout")
          ELSE <<>>
        loadingEdits == IF isLoading /\ found THEN Replace("pending") ELSE <<>>
        errorEdits == IF isError /\ found THEN Replace("error") ELSE <<>>
        notFoundEdits == IF isNotFound /\ found THEN Replace("notFound") ELSE <<>>
        templateEdits ==
          IF isTemplate /\ found /\ ~HasTemplateTodo(text[defaultExport])
          THEN <<EditOf(defaultExport, <<TodoTemplate, text[defaultExport]>>)>>
          ELSE <<>>
        specifiers ==
          IF isPage THEN <<"createFileRoute">>
          ELSE IF isLayout /\ found
            THEN IF isRootLayout THEN <<"createRootRoute", "Outlet">>
                 ELSE <<"createFileRoute", "Outlet">>
          ELSE IF (isLoading \/ isError \/ isNotFound) /\ found THEN <<"createFileRoute">>
          ELSE <<>>
    IN IF \/ Includes(filename, <<"n","o","d","e","_","m","o","d","u","l","e","s">>)
          \/ ~Includes(effectiveFilename, <<"/","a","p","p","/">>) /\ ~Includes(effectiveFilename, <<"\\","a","p","p","\\">>)
         THEN <<>>
       ELSE IF shouldSkipAutomaticRouteTransform(effectiveFilename) THEN <<>>
       ELSE IF Includes(effectiveFilename, <<".","r","o","u","t","e",".">>) \/ Includes(effectiveFilename, <<"_","_","r","o","o","t",".">>)
         THEN <<>>
       ELSE pageEdits \o layoutEdits \o loadingEdits \o errorEdits \o notFoundEdits
              \o templateEdits \o ensureTanstackImport(text, specifiers)))))

(***************************************************************************)
(* The other passes                                                        *)
(***************************************************************************)

\* nextRouteGroupsTransform (route-renames.ts)
nextRouteGroupsTransform(filename, text) ==
  LET \* /\([^)]+\).*\.(tsx|jsx|ts|js)$/ : a "(...)" somewhere, a source extension at the end
      inGroup ==
        \E i \in 0..(Len(filename) - 1) :
          /\ filename[i + 1] = "("
          /\ FirstIn(filename, {")"}, i + 1) > i + 1
          /\ \E e \in Exts :
               /\ EndsWith(filename, <<".">> \o e)
               /\ Len(filename) - Len(e) - 1 > FirstIn(filename, {")"}, i + 1)
      layoutExport == FirstWhere(text, LAMBDA t : t.k = "exportDefault")
      firstExport == FirstWhere(text, LAMBDA t : NodeKind(t) = "export_statement")
      groupEdits ==
        IF inGroup /\ Includes(filename, <<"l","a","y","o","u","t",".">>) /\ layoutExport # 0
        THEN <<EditOf(layoutExport, <<RouteDecl(calculateTanstackRoute(filename), "group")>>)>>
        ELSE <<>>
      parallelEdits ==
        IF Includes(filename, <<"@">>) /\ ~HasParallelTodo(text) /\ firstExport # 0
        THEN <<EditOf(firstExport, <<TodoParallel, text[firstExport]>>)>>
        ELSE <<>>
      specifiers == IF groupEdits # <<>> THEN <<"createFileRoute", "Outlet">> ELSE <<>>
  IN groupEdits \o parallelEdits \o ensureTanstackImport(text, specifiers)

\* queueLineTodo of nextManualMigrationTodoTransform: the anchors (statements) it
\* queues the revalidatePath TODO for, the guard being on the anchor's own text
QueuedLineTodos(text) ==
  IF \E i \in 1..Len(text) : text[i].k = "importNextCache"
  THEN {i \in 1..Len(text) : text[i].k = "call" /\ ~HasLineTodo(text[i])}
  ELSE {}

\* the nodes of s in document order, each with the TODO line put before it
RECURSIVE LineTodoEdits(_, _, _)
LineTodoEdits(text, anchors, i) ==
  IF i > Len(text) THEN <<>>
  ELSE (IF i \in anchors THEN <<EditOf(i, <<TodoLine, text[i]>>)>> ELSE <<>>)
       \o LineTodoEdits(text, anchors, i + 1)

nextManualMigrationTodoTransform(filename, text) ==
  LineTodoEdits(text, QueuedLineTodos(text), 1)

\* nextUseClientDirectiveTransform: every top-level "use client" is removed
RECURSIVE UseClientEdits(_, _)
UseClientEdits(text, i) ==
  IF i > Len(text) THEN <<>>
  ELSE (IF text[i].k = "useClient" THEN <<EditOf(i, <<>>)>> ELSE <<>>)
       \o UseClientEdits(text, i + 1)

nextUseClientDirectiveTransform(filename, text) == UseClientEdits(text, 1)

\* the edits of one pass; the image, link, server-function and api-route
\* generators find none of their patterns in the texts modelled here
PassEdits(id, filename, text) ==
  CASE id = "manual-migration-todos" -> nextManualMigrationTodoTransform(filename, text)
    [] id = "next-use-client" -> nextUseClientDirectiveTransform(filename, text)
    [] id = "route-file-structure" -> nextToTanstackFileStructureTransform(filename, text)
    [] id = "route-groups" -> nextRouteGroupsTransform(filename, text)
    [] OTHER -> <<>>

(***************************************************************************)
(* Invariant Checker                                                       *)
(***************************************************************************)

\* /createRootRoute\s*\(/.test(source)
UsesCreateRootRoute(source) == \E i \in 1..Len(source) : source[i].k = "rootDecl"

\* the literal of the first createFileRoute('<literal>') of the source, or Null
FirstFileRouteLiteral(source) ==
  LET i == FirstWhere(source, LAMBDA t : t.k = "routeDecl" /\ t.p # <<>>)
  IN IF i = 0 THEN Null ELSE source[i].p

\* the imports of "@tanstack/react-router" after normalizeRootRouteSource:
\* createFileRoute dropped, createRootRoute put first unless already there
RECURSIVE WithoutSpecifier(_, _)
WithoutSpecifier(specifiers, name) ==
  IF specifiers = <<>> THEN <<>>
  ELSE (IF specifiers[1] = name THEN <<>> ELSE <<specifiers[1]>>)
       \o WithoutSpecifier(Tail(specifiers), name)

RootImportSpecifiers(specifiers) ==
  LET rest == WithoutSpecifier(specifiers, "createFileRoute")
  IN IF \E i \in 1..Len(rest) : rest[i] = "createRootRoute" THEN rest
     ELSE <<"createRootRoute">> \o rest

normalizeRootRouteSource(source) ==
  [i \in 1..Len(source) |->
     IF source[i].k = "routeDecl" /\ source[i].p = <<"/">> THEN RootDecl(source[i].c)
     ELSE IF source[i].k = "importTanstack"
       THEN ImportTanstack(RootImportSpecifiers(source[i].p))
     ELSE source[i]]

\* a faulty checker that takes a text without a createFileRoute literal for a
\* mismatch
assertCreateFileRoutePathMatchStrict(oldPath, newPath, source, runtimeConfig) ==
  LET expected == computeExpectedRoutePathFromSourcePath(oldPath, runtimeConfig)
      actual == FirstFileRouteLiteral(source)
  IN IF isRootRouteTarget(newPath)
       THEN IF ~UsesCreateRootRoute(source) THEN "root" ELSE "none"
     ELSE IF ~Truthy(expected) THEN "none"
     ELSE IF UsesCreateRootRoute(source) THEN "none"
     ELSE IF actual # expected THEN "mismatch"
     ELSE "none"

\* "none", or the error thrown: "root" (Root route mismatch) or "mismatch"
\* (Route path mismatch)
assertCreateFileRoutePathMatch(oldPath, newPath, source, runtimeConfig) ==
  LET expected == computeExpectedRoutePathFromSourcePath(oldPath, runtimeConfig)
      actual == FirstFileRouteLiteral(source)
  IN IF isRootRouteTarget(newPath)
       THEN IF ~UsesCreateRootRoute(source) THEN "root" ELSE "none"
     ELSE IF ~Truthy(expected) THEN "none"
     ELSE IF UsesCreateRootRoute(source) THEN "none"
     ELSE IF actual = Null THEN "none"
     ELSE IF actual # expected THEN "mismatch"
     ELSE "none"

(***************************************************************************)
(* Pass Orchestrator: transform                                            *)
(***************************************************************************)

\* the tasks transform starts: the enabled passes from MIGRATION_IDS[i] on, in
\* the order of the if statements
RECURSIVE Tasks(_, _)
Tasks(enabled, i) ==
  IF i > Len(MIGRATION_IDS) THEN <<>>
  ELSE (IF MIGRATION_IDS[i] \in enabled THEN <<MIGRATION_IDS[i]>> ELSE <<>>)
       \o Tasks(enabled, i + 1)

\* the order in which n tasks started together settle (positions in tasks): the
\* scheduler's choice, here as started or the last started first
CompletionOrder(n) ==
  IF world.completion = "reverse" THEN [k \in 1..n |-> n + 1 - k] ELSE [k \in 1..n |-> k]

\* faulty tasks that each run on the text as the tasks started before them
\* have edited it
PromiseAllValuesChained(tasks, filename, text, order) ==
  LET seen[k \in 0..Len(tasks)] ==
        IF k = 0 THEN text
        ELSE commitEdits(seen[k - 1], PassEdits(tasks[k], filename, seen[k - 1]))
  IN [k \in 1..Len(tasks) |-> PassEdits(tasks[k], filename, seen[k - 1])]

\* a faulty Promise.all whose values are in the order of completion
PromiseAllValuesAsSettled(tasks, filename, text, order) ==
  [k \in 1..Len(tasks) |-> PassEdits(tasks[order[k]], filename, text)]

\* the values of Promise.all(tasks) once every task has settled: each task's
\* result is put at the position of the task as the task settles
PromiseAllValues(tasks, filename, text, order) ==
  LET settled[k \in 0..Len(tasks)] ==
        IF k = 0 THEN [i \in 1..Len(tasks) |-> <<>>]
        ELSE [settled[k - 1] EXCEPT ![order[k]] = PassEdits(tasks[order[k]], filename, text)]
  IN settled[Len(tasks)]

\* for (const edits of results) allEdits.push(...edits), from results[i] on
RECURSIVE AllEdits(_, _)
AllEdits(results, i) ==
  IF i > Len(results) THEN <<>> ELSE results[i] \o AllEdits(results, i + 1)

\* the merged edit list of a call, from the i-th started pass on
MergedEdits(enabled, filename, text, i) ==
  Let(Tasks(enabled, 1), LAMBDA tasks :
  Let(PromiseAllValues(tasks, filename, text, CompletionOrder(Len(tasks))), LAMBDA results :
    AllEdits(results, i)))

\* a faulty Promise.all that waits for every pass and drops the rejections
PromiseAllSettled(enabled, thrown) == FALSE

\* await Promise.all(tasks) rejects: a pass that was started raises
PromiseAll(enabled, thrown) == thrown \in enabled

\* One run of transform on `filename`, whose pass `thrown` (an id, or "none")
\* raises if it is run.  fs is [files, dirs, ops, hasLoggedDeleteWarning, console], ps the
\* caches and the config warning flag.  result is "raise", "null" (returned
\* after the relocation) or "text" (commitResult returned); error names what
\* was raised.
transform(fs, ps, filename, thrown) ==
  Let(resolveRuntimeConfig(fs, ps, filename, world.options), LAMBDA rc :
    LET runtimeConfig == rc.value
        enabled == runtimeConfig.enabledMigrations
        text == fs.files[Canon(filename)]
        base == [result |-> "raise", error |-> "pass", text |-> <<>>, target |-> Null,
                 output |-> <<>>, fs |-> fs, ps |-> rc.ps, cfg |-> runtimeConfig]
    IN IF PromiseAll(enabled, thrown) THEN base
       ELSE
  Let(commitEdits(text, MergedEdits(enabled, filename, text, 1)), LAMBDA commitResult :
  Let(IF "route-file-structure" \in enabled
      THEN computeTanstackTargetPath(filename, runtimeConfig) ELSE Null,
      LAMBDA targetPath :
    IF ~isDryRun /\ Truthy(targetPath)
    THEN
  Let(IF isRootRouteTarget(targetPath) THEN normalizeRootRouteSource(commitResult)
      ELSE commitResult,
      LAMBDA output :
  Let(assertCreateFileRoutePathMatch(filename, targetPath, output, runtimeConfig),
      LAMBDA check :
    IF check # "none"
    THEN [base EXCEPT !.error = check, !.target = targetPath, !.output = output]
    ELSE
  Let(writeMovedFileAndDeleteOriginal(fs, filename, targetPath, output,
                                      runtimeConfig.appDirectory),
      LAMBDA moved :
    IF moved.error # "none"
    THEN [base EXCEPT !.error = moved.error, !.target = targetPath, !.output = output,
                      !.fs = moved.fs]
    ELSE [base EXCEPT !.result = "null", !.error = "none", !.target = targetPath,
                      !.output = output, !.fs = moved.fs])))
    ELSE [base EXCEPT !.result = "text", !.error = "none", !.text = commitResult,
                      !.target = targetPath])))

(***************************************************************************)
(* The worlds the codemod is started in.  A world is everything the process *)
(* reads and never writes: how the runner spells filenames, argv, the       *)
(* environment, the options object, the configuration files on disk, which  *)
(* fs/promises calls the runtime offers, the directories whose removal      *)
(* fails, the duplicate-edit policy of commitEdits and the pass that may    *)
(* raise.                                                                   *)
(***************************************************************************)

\* number of paths of PathPool, of texts of TextPool, the file sets are built from
NumPaths == 9
NumTexts == 5

\* spellings of a filename: relative to the working directory, absolute POSIX,
\* absolute Windows
Styles == {"rel", "abs", "win"}

RECURSIVE Backslashed(_)
Backslashed(s) ==
  IF s = <<>> THEN <<>>
  ELSE <<IF s[1] = "/" THEN "\\" ELSE s[1]>> \o Backslashed(Tail(s))

\* the filename root.filename() yields for the file `tail` of the project
Styled(style, tail) ==
  CASE style = "rel" -> tail
    [] style = "abs" -> <<"/","p","r","o","j","/">> \o tail
    [] style = "root" -> <<"/">> \o tail
    [] OTHER -> <<"C",":","\\","p","r","o","j","\\">> \o Backslashed(tail)

\* the filename of the file with canonical path c
FileName(style, c) == IF style = "win" THEN Backslashed(c) ELSE c

NoEnv ==
  [CODEMOD_ROUTES_DIRECTORY |-> Null, ROUTES_DIRECTORY |-> Null,
   CODEMOD_DRY_RUN |-> Null, DRY_RUN |-> Null]

NoParams == [k \in {} |-> <<>>]
NoConfFiles == [c \in {} |-> NullSource]

\* one configuration file `name` in the project root
ConfAtRoot(style, name, content) ==
  [c \in {Canon(Styled(style, name))} |-> content]

JsonFile(config) == [kind |-> "json", config |-> config, scanned |-> Null]
InvalidJsonFile == [kind |-> "invalid", config |-> EmptyConfig, scanned |-> Null]
ViteFile(scanned) == [kind |-> "vite", config |-> EmptyConfig, scanned |-> scanned]
IdList(ids) == [present |-> TRUE, ids |-> ids]

BaseWorld(style) ==
  [style |-> style, argv |-> <<>>, env |-> NoEnv,
   options |-> [hasParams |-> FALSE, params |-> NoParams],
   confFiles |-> NoConfFiles,
   caps |-> [unlink |-> TRUE, rm |-> TRUE, readFile |-> TRUE],
   rmFails |-> {}, dupPolicy |-> "last", completion |-> "started",
   ioFails |-> "none",
   faulty |-> "none"]

ProjectConfigFile(style, config) ==
  ConfAtRoot(style, <<"n","e","x","t","-","t","o","-","s","t","a","r","t",".","c","o","d","e","m","o","d",".","j","s","o","n">>, JsonFile(config))

\* the base world of a style with one part of the runtime changed
RuntimeVariations(w) ==
  { w,
    [w EXCEPT !.dupPolicy = "first"],
    [w EXCEPT !.completion = "reverse"],
    [w EXCEPT !.faulty = "route-file-structure"],
    [w EXCEPT !.faulty = "manual-migration-todos"],
    [w EXCEPT !.argv = <<<<"-","-","d","r","y","-","r","u","n">>>>],
    [w EXCEPT !.env.DRY_RUN = <<"1">>],
    [w EXCEPT !.env.CODEMOD_DRY_RUN = <<"1">>, !.faulty = "next-use-client"],
    [w EXCEPT !.caps.unlink = FALSE],
    [w EXCEPT !.caps.unlink = FALSE, !.caps.rm = FALSE],
    [w EXCEPT !.caps.readFile = FALSE],
    [w EXCEPT !.rmFails = {Canon(Styled(w.style, <<"a","p","p","/","a">>))}] }

\* the base world of a style with one source of configuration added
ConfigVariations(w) ==
  { [w EXCEPT !.options = [hasParams |-> TRUE,
                           params |-> [k \in {"routes_directory"} |-> <<"s","r","c","/","r","o","u","t","e","s","/">>]]],
    [w EXCEPT !.argv = <<<<"-","-","r","o","u","t","e","s","-","d","i","r","e","c","t","o","r","y">>, <<"c","l","i","/","r","o","u","t","e","s">>>>],
    [w EXCEPT !.env.CODEMOD_ROUTES_DIRECTORY = <<".","/","e","n","v","r","o","u","t","e","s">>],
    [w EXCEPT !.confFiles =
       ProjectConfigFile(w.style, [EmptyConfig EXCEPT !.routesDirectory = <<"a","p","p">>])],
    [w EXCEPT !.confFiles =
       ProjectConfigFile(w.style, [EmptyConfig EXCEPT
          !.disabledMigrations = IdList({"route-file-structure"})])],
    [w EXCEPT !.confFiles =
       ProjectConfigFile(w.style, [EmptyConfig EXCEPT
          !.enabledMigrations = IdList({"route-file-structure"}),
          !.migrations = [k \in {"next-use-client", "route-groups"} |->
                            IF k = "route-groups" THEN "false" ELSE "true"]])],
    [w EXCEPT !.confFiles =
       ConfAtRoot(w.style, <<".","n","e","x","t","-","t","o","-","s","t","a","r","t",".","c","o","d","e","m","o","d",".","j","s","o","n">>, InvalidJsonFile)],
    [w EXCEPT !.confFiles = ConfAtRoot(w.style, <<"v","i","t","e",".","c","o","n","f","i","g",".","t","s">>, ViteFile(<<"s","r","c","/","r","o","u","t","e","s">>))],
    [w EXCEPT !.confFiles =
       ConfAtRoot(w.style, <<"v","i","t","e",".","c","o","n","f","i","g",".","m","j","s">>, [ViteFile(Null) EXCEPT !.kind = "unreadable"])] }

Worlds ==
  UNION {RuntimeVariations(BaseWorld(s)) : s \in Styles}
    \cup ConfigVariations(BaseWorld("abs"))

(***************************************************************************)
(* The file sets of a project                                              *)
(***************************************************************************)

\* source paths of a project (relative to its root)
PathPool ==
  << <<"a","p","p","/","p","a","g","e",".","t","s","x">>, <<"a","p","p","/","l","a","y","o","u","t",".","t","s","x">>, <<"a","p","p","/","a","/","b","/","p","a","g","e",".","t","s","x">>, <<"a","p","p","/","(","g",")","/","l","a","y","o","u","t",".","t","s","x">>,
     <<"a","p","p","/","a","/","t","e","m","p","l","a","t","e",".","t","s","x">>, <<"a","p","p","/","l","i","b","/","n","a","v",".","t","s">>, <<"a","p","p","/","@","s","/","p","a","g","e",".","t","s","x">>, <<"a","p","p","/","[",".",".",".","s","]","/","p","a","g","e",".","t","s","x">>,
     <<"a","p","p","/","a","/","l","a","y","o","u","t",".","j","s","x">>, <<"a","p","p","/","_","p","/","p","a","g","e",".","t","s","x">>, <<"a","p","p","/","[","i","d","]","/","l","o","a","d","i","n","g",".","t","s","x">>, <<"a","p","p","/","a","/","r","o","u","t","e",".","t","s">>,
     <<"a","p","p","/","(","g",")","/","[","[",".",".",".","s","]","]","/","e","r","r","o","r",".","j","s">> >>

\* source texts
TextPool ==
  << <<ImportReact, ExportDefault>>,
     <<UseClient, ImportNextCache, CallRevalidate, ExportDefault>>,
     <<ExportDefault>>,
     <<ImportTanstack(<<"createFileRoute">>), RouteDecl(<<"/","w","r","o","n","g">>, "page")>>,
     <<ImportReact, RootDecl("layout"), RouteDecl(<<"/","w","r","o","n","g">>, "page")>>,
     <<ImportReact, ExportDefaultWithTodo>>,
     <<ImportReact, ExportDefault, ExportDefault>> >>

\* a file set: tails -> text
OneFile(tail, text) == [t \in {tail} |-> text]
TwoFiles(tail1, text1, tail2, text2) ==
  [t \in {tail1, tail2} |-> IF t = tail1 THEN text1 ELSE text2]

\* projects of two files: siblings, nested directories, two sources of one
\* target (with equal and with different texts), a target that is already
\* there, two route handlers (one in the API folder, with a route declaration)
PairedFileSets ==
  { TwoFiles(<<"a","p","p","/","a","/","b","/","p","a","g","e",".","t","s","x">>, TextPool[1], <<"a","p","p","/","a","/","p","a","g","e",".","t","s","x">>, TextPool[1]),
    TwoFiles(<<"a","p","p","/","a","/","b","/","c","/","p","a","g","e",".","t","s","x">>, TextPool[1], <<"a","p","p","/","a","/","b","/","d","/","e","/","p","a","g","e",".","t","s","x">>, TextPool[3]),
    TwoFiles(<<"a","p","p","/","[",".",".",".","s","]","/","p","a","g","e",".","t","s","x">>, TextPool[1], <<"a","p","p","/","[","[",".",".",".","s","]","]","/","p","a","g","e",".","t","s","x">>, TextPool[1]),
    TwoFiles(<<"a","p","p","/","[",".",".",".","s","]","/","p","a","g","e",".","t","s","x">>, TextPool[1], <<"a","p","p","/","[","[",".",".",".","s","]","]","/","p","a","g","e",".","t","s","x">>, TextPool[2]),
    TwoFiles(<<"a","p","p","/","x","/","p","a","g","e",".","t","s","x">>, TextPool[1], <<"r","o","u","t","e","s","/","x","/","i","n","d","e","x",".","t","s","x">>, TextPool[3]),
    TwoFiles(<<"a","p","p","/","a","/","x","/","p","a","g","e",".","t","s","x">>, TextPool[3], <<"r","o","u","t","e","s","/","a","/","x","/","i","n","d","e","x",".","t","s","x">>,
             <<ImportTanstack(<<"createFileRoute">>), RouteDecl(<<"/","a","/","x">>, "page")>>),
    TwoFiles(<<"a","p","p","/","a","/","r","o","u","t","e",".","t","s">>, TextPool[2], <<"a","p","p","/","a","p","i","/","b","/","r","o","u","t","e",".","t","s">>, TextPool[4]) }

FileSets ==
  {OneFile(PathPool[p], TextPool[t]) : p \in 1..NumPaths, t \in 1..NumTexts}
    \cup PairedFileSets

\* the files of a file set as the filesystem holds them
FilesOf(style, set) ==
  [c \in {Canon(Styled(style, t)) : t \in DOMAIN set} |->
     set[CHOOSE t \in DOMAIN set : Canon(Styled(style, t)) = c]]

\* the directories that hold the files, and the app directory
DirsOf(style, set) ==
  UNION {DirChain(ParentOf(Canon(Styled(style, t)))) : t \in (DOMAIN set) \cup {<<"a","p","p","/","x">>}}

(***************************************************************************)
(* The batch driver: the runner hands every file of the project to         *)
(* transform, one after the other; a second sweep over the resulting files *)
(* follows the first.                                                      *)
(***************************************************************************)

NoCache == [k \in {} |-> <<>>]

\* no transform call is under way: the driver runs them one after the other
NoPipelines == [f \in {} |-> <<>>]

\* `last` before any call of a sweep.  After a call it holds the call's filename,
\* the text the file had (disk), how the call ended (result, error), the text it
\* returned, the target path and output of the relocation, the filesystem calls
\* it made (ops), the pass that raised (thrown), the resolved configuration and
\* the filesystem as it was before the call.
NoCall(fileMap, dirSet) ==
  [file |-> Null, result |-> "none", error |-> "none", text |-> <<>>, disk |-> <<>>,
   target |-> Null, output |-> <<>>, ops |-> <<>>, thrown |-> "none",
   routesDirectory |-> <<>>, appDirectory |-> <<>>, enabled |-> {},
   filesBefore |-> fileMap, dirsBefore |-> dirSet]

\* the filenames the runner enumerates for a sweep
Enumerate(style, fileMap) == {FileName(style, c) : c \in DOMAIN fileMap}

Init ==
  \E w \in Worlds, set \in FileSets :
    /\ world = w
    /\ files = FilesOf(w.style, set)
    /\ dirs = DirsOf(w.style, set)
    /\ routesDirCache = NoCache
    /\ projectConfigCache = NoCache
    /\ hasLoggedDeleteWarning = FALSE
    /\ hasLoggedConfigWarning = FALSE
    /\ console = <<>>
    /\ pipelines = NoPipelines
    /\ run = 1
    /\ todo = Enumerate(w.style, FilesOf(w.style, set))
    /\ clean = TRUE
    /\ last = NoCall(FilesOf(w.style, set), DirsOf(w.style, set))

\* The runner calls transform on f; thrown is the pass that raises in this call.
\* Text that transform returns is written back to f by the runner unless the
\* run is a dry run.
Transform(f, thrown) ==
  /\ f \in todo
  /\ Canon(f) \in DOMAIN files
  /\ LET fs == [files |-> files, dirs |-> dirs, ops |-> <<>>,
                hasLoggedDeleteWarning |-> hasLoggedDeleteWarning,
                console |-> <<>>]
         ps == [routesDirCache |-> routesDirCache,
                projectConfigCache |-> projectConfigCache,
                hasLoggedConfigWarning |-> hasLoggedConfigWarning,
                console |-> <<>>]
     IN \E r \in {transform(fs, ps, f, thrown)} :
        /\ files' = IF r.result = "text" /\ ~isDryRun
                    THEN [r.fs.files EXCEPT ![Canon(f)] = r.text] ELSE r.fs.files
        /\ dirs' = r.fs.dirs
        /\ hasLoggedDeleteWarning' = r.fs.hasLoggedDeleteWarning
        /\ routesDirCache' = r.ps.routesDirCache
        /\ projectConfigCache' = r.ps.projectConfigCache
        /\ hasLoggedConfigWarning' = r.ps.hasLoggedConfigWarning
        /\ console' = console \o r.ps.console \o r.fs.console
        /\ clean' = (clean /\ (run = 1 => r.result # "raise"))
        /\ last' = [file |-> f, result |-> r.result, error |-> r.error, text |-> r.text,
                    disk |-> files[Canon(f)], target |-> r.target, output |-> r.output,
                    ops |-> r.fs.ops, thrown |-> thrown,
                    routesDirectory |-> r.cfg.routesDirectory,
                    appDirectory |-> r.cfg.appDirectory,
                    enabled |-> r.cfg.enabledMigrations,
                    filesBefore |-> files, dirsBefore |-> dirs]
  /\ todo' = todo \ {f}
  /\ UNCHANGED <<world, run, pipelines>>

\* the second run of the codemod over the project, in the same process
SecondSweep ==
  /\ run = 1
  /\ todo = {}
  /\ run' = 2
  /\ todo' = Enumerate(world.style, files)
  /\ last' = NoCall(files, dirs)
  /\ UNCHANGED <<world, files, dirs, routesDirCache, projectConfigCache,
                 hasLoggedDeleteWarning, hasLoggedConfigWarning, console, clean, pipelines>>

Next ==
  \/ \E f \in todo, thrown \in {"none", world.faulty} : Transform(f, thrown)
  \/ SecondSweep

Spec == Init /\ [][Next]_vars

(***************************************************************************)
(* Config Resolver on its own: resolveRuntimeConfig applied to the files   *)
(* of a project under every combination of the sources of the routes       *)
(* directory.                                                              *)
(***************************************************************************)

\* what each source of the routes directory may hold (Null: not set)
ConfigFileValues == {Null, <<"c","f","g","/","r","o","u","t","e","s">>, <<".","/">>}
\* a project config file that is not JSON, or is JSON but not an object
NotJson == <<"<not json>">>
NotAnObject == <<"<not an object>">>
\* a vite configuration that cannot be read
Unreadable == <<"<unreadable>">>
ParamsValues ==
  { [hasParams |-> FALSE, params |-> NoParams],
    [hasParams |-> TRUE, params |-> [k \in {"routes_directory"} |-> <<"p","a","r","/","r","o","u","t","e","s","/">>]],
    [hasParams |-> TRUE,
     params |-> [k \in {"routesDirectory", "routesDir"} |->
                   IF k = "routesDirectory" THEN <<" ">> ELSE <<"d","i","r","/","r","o","u","t","e","s">>]] }
ArgvValues == {<<>>, <<<<"-","-","v","e","r","b","o","s","e">>, <<"-","-","r","o","u","t","e","s","-","d","i","r","e","c","t","o","r","y","=","c","l","i","/","r","o","u","t","e","s">>>>}
EnvValues ==
  {[NoEnv EXCEPT !.CODEMOD_ROUTES_DIRECTORY = c, !.ROUTES_DIRECTORY = r] :
     c \in {Null, <<>>, <<".","/","e","n","v","c">>}, r \in {Null, <<"e","n","v","r">>}}
ViteValues == {Null, <<"v","/","r","o","u","t","e","s">>, <<".","/">>}

\* the configuration files of the project root for a choice of the two file sources
ConfFilesOf(style, configValue, viteValue, withConfig, withVite) ==
  [c \in (IF withConfig THEN {Canon(Styled(style, <<"n","e","x","t","-","t","o","-","s","t","a","r","t",".","c","o","d","e","m","o","d","r","c",".","j","s","o","n">>))} ELSE {})
         \cup (IF withVite THEN {Canon(Styled(style, <<"v","i","t","e",".","c","o","n","f","i","g",".","j","s">>))} ELSE {}) |->
     IF c = Canon(Styled(style, <<"v","i","t","e",".","c","o","n","f","i","g",".","j","s">>))
       THEN IF viteValue = Unreadable THEN [ViteFile(Null) EXCEPT !.kind = "unreadable"]
            ELSE ViteFile(viteValue)
     ELSE IF configValue = NotJson THEN InvalidJsonFile
     ELSE IF configValue = NotAnObject THEN [InvalidJsonFile EXCEPT !.kind = "nonobject"]
     ELSE JsonFile([EmptyConfig EXCEPT !.routesDirectory = configValue])]

ConfigWorlds ==
  { [BaseWorld(style) EXCEPT
       !.options = p, !.argv = a, !.env = e,
       !.confFiles = ConfFilesOf(style, cv, vv, cv # Null, vv # Null)] :
    style \in {"abs", "win"}, p \in ParamsValues, a \in ArgvValues, e \in EnvValues,
    cv \in ConfigFileValues \cup {NotJson, NotAnObject},
    vv \in ViteValues \cup {Unreadable} }

ConfigFileSet == TwoFiles(<<"a","p","p","/","p","a","g","e",".","t","s","x">>, TextPool[1], <<"a","p","p","/","a","/","p","a","g","e",".","t","s","x">>, TextPool[1])

InitConfig ==
  \E w \in ConfigWorlds :
    /\ world = w
    /\ files = FilesOf(w.style, ConfigFileSet)
    /\ dirs = DirsOf(w.style, ConfigFileSet)
    /\ routesDirCache = NoCache
    /\ projectConfigCache = NoCache
    /\ hasLoggedDeleteWarning = FALSE
    /\ hasLoggedConfigWarning = FALSE
    /\ console = <<>>
    /\ pipelines = NoPipelines
    /\ run = 1
    /\ todo = Enumerate(w.style, FilesOf(w.style, ConfigFileSet))
    /\ clean = TRUE
    /\ last = NoCall(FilesOf(w.style, ConfigFileSet), DirsOf(w.style, ConfigFileSet))

\* resolveRuntimeConfig(f, options), as transform calls it first
Resolve(f) ==
  /\ f \in todo
  /\ LET fs == [files |-> files, dirs |-> dirs, ops |-> <<>>,
                hasLoggedDeleteWarning |-> hasLoggedDeleteWarning,
                console |-> <<>>]
         ps == [routesDirCache |-> routesDirCache,
                projectConfigCache |-> projectConfigCache,
                hasLoggedConfigWarning |-> hasLoggedConfigWarning,
                console |-> <<>>]
     IN \E rc \in {resolveRuntimeConfig(fs, ps, f, world.options)} :
          /\ routesDirCache' = rc.ps.routesDirCache
          /\ projectConfigCache' = rc.ps.projectConfigCache
          /\ hasLoggedConfigWarning' = rc.ps.hasLoggedConfigWarning
          /\ console' = console \o rc.ps.console
          /\ last' = [NoCall(files, dirs) EXCEPT
                        !.file = f, !.result = "resolved",
                        !.routesDirectory = rc.value.routesDirectory,
                        !.appDirectory = rc.value.appDirectory,
                        !.enabled = rc.value.enabledMigrations]
  /\ todo' = todo \ {f}
  /\ UNCHANGED <<world, files, dirs, hasLoggedDeleteWarning, run, clean, pipelines>>

NextConfig == \E f \in todo : Resolve(f)

SpecConfig == InitConfig /\ [][NextConfig]_vars

(***************************************************************************)
(* Properties.  They speak about the latest transform call through `last`  *)
(* and about the filesystem the call left behind.                          *)
(***************************************************************************)

\* a transform call has been made in the current sweep
Called == last.result \in {"raise", "null", "text"}

\* the dry-run flag as the user sets it
DryRunRequested ==
  \/ \E i \in 1..Len(world.argv) : world.argv[i] = <<"-","-","d","r","y","-","r","u","n">>
  \/ world.env.CODEMOD_DRY_RUN = <<"1">>
  \/ world.env.DRY_RUN = <<"1">>

\* the resolved configuration of the latest call
LastConfig ==
  [routesDirectory |-> last.routesDirectory, appDirectory |-> last.appDirectory,
   enabledMigrations |-> last.enabled]

\* the latest call left files and directories as they were
FsUntouched == last.ops = <<>> /\ files = last.filesBefore /\ dirs = last.dirsBefore

\* the filesystem calls of the latest call of one kind
OpsOf(kind) == {i \in 1..Len(last.ops) : last.ops[i].op = kind}

\* entry c lies inside directory d (at any depth)
Under(c, d) == StartsWith(c, d \o <<"/">>)

\* the canonical path of the app directory above file f; <<>> when f is not under it
AppRootOf(f, appDirectory) ==
  LET segs == Split(normalizePath(f), {"/"})
      appSegs == normalizeDirSegments(appDirectory)
      i == findSubPathIndex(segs, appSegs)
  IN IF i = -1 THEN <<>> ELSE Canon(Join(Slice(segs, 0, i + Len(appSegs)), <<"/">>))

\* the path segments of f below the app directory; <<>> when f is not under it
BelowApp(f, appDirectory) ==
  LET segs == FilterBoolean(Split(normalizePath(f), {"/"}))
      appSegs == normalizeDirSegments(appDirectory)
      i == findSubPathIndex(segs, appSegs)
  IN IF i = -1 THEN <<>> ELSE SliceFrom(segs, i + Len(appSegs))

\* C1 (as claimed): idempotence of the whole pipeline.  After a first sweep in
\* which no file's pipeline raised (not a dry run, the delete API there, no
\* removal failing), no call of the second sweep makes a filesystem call, and
\* the text it returns is the text the file has on disk.
C1_SecondSweepChangesNothing ==
  (/\ run = 2 /\ clean /\ Called /\ last.thrown = "none"
   /\ ~DryRunRequested /\ world.caps.unlink /\ world.rmFails = {})
    => /\ last.ops = <<>>
       /\ last.result = "text" => last.text = last.disk

\* the relocation of the latest call got as far as writeMovedFileAndDeleteOriginal
ReachedRelocation ==
  /\ Called
  /\ ~DryRunRequested
  /\ last.target # Null
  /\ last.error \notin {"pass", "root", "mismatch"}

\* C2: conflict safety.  When writeMovedFileAndDeleteOriginal is called and a
\* file with a content other than the output is at newPath, the call fails with
\* the conflict error and files and directories are as before: nothing written,
\* deleted, created or removed.
C2_ConflictSafety ==
  (/\ ReachedRelocation
   /\ Canon(last.target) \in DOMAIN last.filesBefore
   /\ last.filesBefore[Canon(last.target)] # last.output)
    => /\ last.result = "raise"
       /\ last.error = "conflict"
       /\ FsUntouched
       /\ Canon(last.file) \in DOMAIN files

\* a relocation ran into a destination of different content
C2_Witness ==
  /\ ReachedRelocation
  /\ Canon(last.target) \in DOMAIN last.filesBefore
  /\ last.filesBefore[Canon(last.target)] # last.output
  /\ last.error = "conflict"

\* C5: a pass failure aborts the file.  When an enabled pass raises, the call
\* raises, commits no edit (returns no text), runs neither check nor relocation
\* (no target, no output) and leaves files and directories as they were.
C5_PassFailureAborts ==
  (Called /\ last.thrown \in last.enabled)
    => /\ last.result = "raise"
       /\ last.error = "pass"
       /\ last.text = <<>>
       /\ last.target = Null
       /\ last.output = <<>>
       /\ FsUntouched

\* a pass raised in a call that would otherwise have moved its file
C5_Witness ==
  /\ Called
  /\ last.thrown \in last.enabled
  /\ ~DryRunRequested
  /\ "route-file-structure" \in last.enabled
  /\ computeTanstackTargetPath(last.file, LastConfig) # Null

\* the literal of the first createFileRoute in the text to be written, and the
\* route path recomputed from the original path
WrittenLiteral == FirstFileRouteLiteral(last.output)
RecomputedRoute == computeExpectedRoutePathFromSourcePath(last.file, LastConfig)

\* the latest call got as far as the invariant checker
ReachedChecker == Called /\ ~DryRunRequested /\ last.target # Null /\ last.error # "pass"

\* C6 (as claimed): a route mismatch is fatal.  Whenever the checker is reached
\* and the createFileRoute literal of the text to be written differs from the
\* recomputed route path, the call raises and makes no filesystem call.
C6_AnyMismatchIsFatal ==
  (/\ ReachedChecker
   /\ WrittenLiteral # Null /\ RecomputedRoute # Null
   /\ WrittenLiteral # RecomputedRoute)
    => last.result = "raise" /\ last.error \in {"mismatch", "root"} /\ FsUntouched

\* the comparison the checker makes applies: the target is not the root
\* declaration file, a route path is recomputed, and the text uses no
\* createRootRoute(
ComparisonApplies ==
  /\ ~isRootRouteTarget(last.target)
  /\ RecomputedRoute # Null
  /\ ~UsesCreateRootRoute(last.output)

\* C6 (what the checker does ensure): where the comparison applies, a first
\* createFileRoute literal that differs from the recomputed route path makes the
\* call raise the mismatch error with no filesystem call made; and every call
\* that made a filesystem call passed the checker: its root target uses
\* createRootRoute(, or the comparison, where it applies, found the literal
\* equal.
C6_MismatchIsFatal ==
  /\ (/\ ReachedChecker /\ ComparisonApplies
      /\ WrittenLiteral # Null /\ WrittenLiteral # RecomputedRoute)
       => last.result = "raise" /\ last.error = "mismatch" /\ FsUntouched
  /\ last.ops # <<>>
       => /\ ReachedChecker
          /\ isRootRouteTarget(last.target) => UsesCreateRootRoute(last.output)
          /\ (ComparisonApplies /\ WrittenLiteral # Null)
               => WrittenLiteral = RecomputedRoute

\* the checker stopped a relocation under a different declared path
C6_Witness ==
  /\ ReachedChecker /\ ComparisonApplies
  /\ WrittenLiteral # Null /\ WrittenLiteral # RecomputedRoute
  /\ last.error = "mismatch"

\* f is a layout file; its extension
IsLayoutFile(f) ==
  \E e \in Exts : EndsWith(normalizePath(f), <<"/","l","a","y","o","u","t",".">> \o e)
ExtensionOf(f) == CHOOSE e \in Exts : EndsWith(f, <<".">> \o e)

\* the root declaration file under the routes directory for the layout f that
\* lies directly in the app directory
RootTargetOf(f, routesDirectory, appDirectory) ==
  LET sep == IF Includes(f, <<"\\">>) THEN <<"\\">> ELSE <<"/">>
      tail == Len(Join(normalizeDirSegments(appDirectory), sep)) + Len(<<"/","l","a","y","o","u","t",".">>)
                + Len(ExtensionOf(f))
  IN Slice(f, 0, Len(f) - tail)
       \o Join(FilterBoolean(Split(routesDirectory, {"/"})), sep)
       \o sep \o <<"_","_","r","o","o","t",".">> \o ExtensionOf(f)

\* C7: root detection.  A layout directly in the app directory derives to
\* __root.<ext> under the routes directory; it is relocated only with
\* createRootRoute( in the text to be written, and without it the checker raises
\* and nothing is written.  A layout with a segment between the app directory
\* and itself never derives to __root.
C7_RootDetection ==
  (/\ Called /\ last.error # "pass"
   /\ "route-file-structure" \in last.enabled
   /\ IsLayoutFile(last.file)
   /\ BelowApp(last.file, last.appDirectory) # <<>>)
    => IF Len(BelowApp(last.file, last.appDirectory)) = 1
       THEN /\ last.routesDirectory # <<>>
              => last.target = RootTargetOf(last.file, last.routesDirectory,
                                            last.appDirectory)
            /\ last.ops # <<>> => UsesCreateRootRoute(last.output)
            /\ (ReachedChecker /\ ~UsesCreateRootRoute(last.output))
                 => last.result = "raise" /\ last.error = "root" /\ FsUntouched
       ELSE ~isRootRouteTarget(last.target)

\* a root layout was relocated to __root
C7_Witness ==
  /\ Called
  /\ IsLayoutFile(last.file)
  /\ Len(BelowApp(last.file, last.appDirectory)) = 1
  /\ isRootRouteTarget(last.target)
  /\ OpsOf("write") # {}
  /\ UsesCreateRootRoute(last.output)

\* nothing is inside directory d
EmptyDir(d) ==
  \A c \in (DOMAIN files) \cup dirs \cup (DOMAIN world.confFiles) : ~Under(c, d)

\* the latest call deleted its source file
DeletedSource ==
  \E i \in OpsOf("delete") : last.ops[i].path = Canon(last.file)

\* C8 (as claimed): pruning removes the emptied directories.  After a relocation
\* that deleted the source file (no removal failing), no directory above that
\* file and strictly below the app root is left behind empty.
C8_EmptiedDirectoriesRemoved ==
  (Called /\ DeletedSource /\ world.rmFails = {})
    => \A d \in last.dirsBefore :
         (/\ Under(Canon(last.file), d)
          /\ Under(d, AppRootOf(last.file, last.appDirectory))
          /\ EmptyDir(d))
           => d \notin dirs

\* C9: pruning boundary safety.  Every directory a call removed was there, lies
\* strictly inside the app root, is above the deleted file, is not one whose
\* removal fails, and has nothing inside; the removals climb from the file's
\* parent one directory at a time, so nothing above a directory that stayed is
\* touched.
C9_PruningBoundary ==
  \A i \in OpsOf("rmdir") :
    LET d == last.ops[i].path
    IN /\ DeletedSource
       /\ d \in last.dirsBefore
       /\ d \notin dirs
       /\ Under(d, AppRootOf(last.file, last.appDirectory))
       /\ Under(Canon(last.file), d)
       /\ d \notin world.rmFails
       /\ EmptyDir(d)
       /\ \/ d = ParentOf(Canon(last.file))
          \/ \E j \in OpsOf("rmdir") : j < i /\ ParentOf(last.ops[j].path) = d

\* pruning removed a directory and stopped below the app root at a directory
\* that is not empty
C9_Witness ==
  /\ OpsOf("rmdir") # {}
  /\ \E d \in dirs :
       /\ Under(Canon(last.file), d)
       /\ Under(d, AppRootOf(last.file, last.appDirectory))
       /\ ~EmptyDir(d)

\* C10: relocation gating.  A call makes a filesystem call only with the
\* route-file-structure pass enabled, no dry run and a target path derived; in a
\* dry run a call whose passes do not raise makes none, leaves files and
\* directories alone and returns the committed text.
C10_RelocationGating ==
  /\ last.ops # <<>>
       => /\ "route-file-structure" \in last.enabled
          /\ ~DryRunRequested
          /\ last.target # Null
          /\ computeTanstackTargetPath(last.file, LastConfig) = last.target
  /\ (Called /\ DryRunRequested /\ last.thrown \notin last.enabled)
       => /\ FsUntouched
          /\ last.result = "text"
          /\ last.text = commitEdits(last.disk,
                                     MergedEdits(last.enabled, last.file, last.disk, 1))

\* a dry run returned edited text for a file the deriver has a target for
C10_Witness ==
  /\ Called /\ DryRunRequested
  /\ last.result = "text"
  /\ last.text # last.disk
  /\ last.target # Null

\* What each source of the routes directory supplies to the latest resolution,
\* normalised; <<>> when the source is not set or normalises to nothing.
SuppliedByConfigFile ==
  LET found == {c \in DOMAIN world.confFiles : world.confFiles[c].kind = "json"}
      value == world.confFiles[CHOOSE c \in found : TRUE].config.routesDirectory
  IN IF found = {} \/ value = Null THEN <<>> ELSE normalizeRoutesDirectory(value)

RECURSIVE FirstSupplied(_)
FirstSupplied(values) ==
  IF values = <<>> THEN <<>>
  ELSE IF values[1] # <<>> THEN values[1]
  ELSE FirstSupplied(Tail(values))

ParamValue(key) ==
  IF world.options.hasParams /\ key \in DOMAIN world.options.params
  THEN normalizeRoutesDirectory(world.options.params[key]) ELSE <<>>

SuppliedByParams ==
  FirstSupplied(<<ParamValue("routesDirectory"), ParamValue("routes_directory"),
                  ParamValue("routes-dir"), ParamValue("routesDir")>>)

SuppliedByArgv ==
  LET value == readCliOption(<<"r","o","u","t","e","s","-","d","i","r","e","c","t","o","r","y">>)
  IN IF Truthy(value) THEN normalizeRoutesDirectory(value) ELSE <<>>

\* CODEMOD_ROUTES_DIRECTORY, or ROUTES_DIRECTORY when the former is not set
SuppliedByEnv ==
  LET value == IF world.env.CODEMOD_ROUTES_DIRECTORY # Null
               THEN world.env.CODEMOD_ROUTES_DIRECTORY ELSE world.env.ROUTES_DIRECTORY
  IN IF Truthy(value) THEN normalizeRoutesDirectory(value) ELSE <<>>

\* the vite configuration has a routesDirectory field; its normalised value
ViteScanned ==
  \E c \in DOMAIN world.confFiles :
    world.confFiles[c].kind = "vite" /\ Truthy(world.confFiles[c].scanned)
ViteValue ==
  LET c == CHOOSE c \in DOMAIN world.confFiles : world.confFiles[c].kind = "vite"
  IN normalizeRoutesDirectory(Trim(world.confFiles[c].scanned))

Resolved == last.result = "resolved"

ResolutionIn(order) ==
  IF FirstSupplied(order) # <<>> THEN FirstSupplied(order)
  ELSE IF ViteScanned THEN ViteValue
  ELSE <<"r","o","u","t","e","s">>

NumSegments == 9

\* directory segments: plain, route group, dynamic, catch-all, optional
\* catch-all, parallel route, private folder, the API folder
SegmentPool ==
  << <<"a">>, <<"(","g",")">>, <<"[","i","d","]">>, <<"[",".",".",".","s","]">>, <<"[","[",".",".",".","s","]","]">>, <<"@","s">>, <<"_","p">>, <<"_">>, <<"a","p","i">>, <<"@">>, <<"b">> >>

\* file names: the special names of mapRouteFilename and others
BasePool ==
  { <<"p","a","g","e",".","t","s","x">>, <<"l","a","y","o","u","t",".","t","s","x">>, <<"t","e","m","p","l","a","t","e",".","j","s","x">>, <<"l","o","a","d","i","n","g",".","t","s">>, <<"e","r","r","o","r",".","j","s">>,
    <<"n","o","t","-","f","o","u","n","d",".","t","s","x">>, <<"d","e","f","a","u","l","t",".","t","s","x">>, <<"r","o","u","t","e",".","t","s">>, <<"n","a","v",".","t","s">>, <<"p","a","g","e",".","m","d","x">> }

\* the directory branches below the app directory, none to two segments deep
Branches ==
  {<<>>} \cup {<<SegmentPool[i]>> : i \in 1..NumSegments}
         \cup {<<SegmentPool[i], SegmentPool[j]>> : i, j \in 1..NumSegments}

\* the path of a file, relative to the project root
TailOf(appDir, branch, base) == Join(<<appDir>> \o branch \o <<base>>, <<"/">>)

\* a world and the app directory its project uses
PathWorlds ==
  {[world |-> BaseWorld(s), app |-> <<"a","p","p">>] : s \in Styles}
    \cup
  { [world |-> [BaseWorld("abs") EXCEPT !.options =
                  [hasParams |-> TRUE,
                   params |-> [k \in {"routes_directory"} |-> <<"s","r","c","/","r","o","u","t","e","s","/">>]]],
     app |-> <<"a","p","p">>],
    [world |-> [BaseWorld("abs") EXCEPT !.confFiles =
                  ProjectConfigFile("abs", [EmptyConfig EXCEPT
                     !.disabledMigrations = IdList({"route-file-structure"})])],
     app |-> <<"a","p","p">>],
    [world |-> [BaseWorld("abs") EXCEPT !.confFiles =
                  ProjectConfigFile("abs", [EmptyConfig EXCEPT
                     !.enabledMigrations = IdList({"route-file-structure",
                                                   "next-use-client"})])],
     app |-> <<"a","p","p">>],
    [world |-> [BaseWorld("abs") EXCEPT !.confFiles =
                  ProjectConfigFile("abs", [EmptyConfig EXCEPT
                     !.appDirectory = <<"s","r","c","/","a","p","p">>])],
     app |-> <<"s","r","c","/","a","p","p">>] }

InitPaths ==
  \E pw \in PathWorlds, branch \in Branches, base \in BasePool :
    LET set == OneFile(TailOf(pw.app, branch, base), TextPool[2])
    IN /\ world = pw.world
       /\ files = FilesOf(pw.world.style, set)
       /\ dirs = DirsOf(pw.world.style, set)
       /\ routesDirCache = NoCache
       /\ projectConfigCache = NoCache
       /\ hasLoggedDeleteWarning = FALSE
       /\ hasLoggedConfigWarning = FALSE
       /\ console = <<>>
       /\ pipelines = NoPipelines
       /\ run = 1
       /\ todo = Enumerate(pw.world.style, FilesOf(pw.world.style, set))
       /\ clean = TRUE
       /\ last = NoCall(FilesOf(pw.world.style, set), DirsOf(pw.world.style, set))

NextPaths == \E f \in todo : Transform(f, "none")

SpecPaths == InitPaths /\ [][NextPaths]_vars

(***************************************************************************)
(* Pass enablement on its own: resolveRuntimeConfig applied under every    *)
(* combination of the three toggle fields of the project config file.      *)
(***************************************************************************)

\* what the three fields may hold; "foo" and "bar" are ids of no pass, "other"
\* a value that is no boolean
AllowLists ==
  { [present |-> FALSE, ids |-> {}], IdList({}), IdList({"foo"}),
    IdList({"next-link", "route-file-structure"}), IdList({"next-image", "foo"}) }
DenyLists ==
  { [present |-> FALSE, ids |-> {}], IdList({}), IdList({"next-link"}),
    IdList({"next-image", "bar"}) }
ToggleMaps ==
  { <<>>,
    [k \in {"next-image"} |-> "true"],
    [k \in {"next-link", "route-groups"} |->
       IF k = "next-link" THEN "false" ELSE "true"],
    [k \in {"foo", "api-routes"} |-> IF k = "foo" THEN "true" ELSE "other"],
    [k \in {"next-image", "next-link", "bar"} |->
       IF k = "next-link" THEN "true" ELSE "false"] }

ToggleWorlds ==
  { [BaseWorld(style) EXCEPT !.confFiles =
       ProjectConfigFile(style, [EmptyConfig EXCEPT
          !.enabledMigrations = a, !.disabledMigrations = d, !.migrations = m])] :
    style \in {"abs", "win"}, a \in AllowLists, d \in DenyLists, m \in ToggleMaps }

InitToggles ==
  \E w \in ToggleWorlds :
    /\ world = w
    /\ files = FilesOf(w.style, ConfigFileSet)
    /\ dirs = DirsOf(w.style, ConfigFileSet)
    /\ routesDirCache = NoCache
    /\ projectConfigCache = NoCache
    /\ hasLoggedDeleteWarning = FALSE
    /\ hasLoggedConfigWarning = FALSE
    /\ console = <<>>
    /\ pipelines = NoPipelines
    /\ run = 1
    /\ todo = Enumerate(w.style, FilesOf(w.style, ConfigFileSet))
    /\ clean = TRUE
    /\ last = NoCall(FilesOf(w.style, ConfigFileSet), DirsOf(w.style, ConfigFileSet))

SpecToggles == InitToggles /\ [][NextConfig]_vars

(***************************************************************************)
(* Claims about the Route Path Deriver (checked under SpecPaths)           *)
(***************************************************************************)

\* the directory segments of the latest call's file between the app directory
\* and the file name, and the file name
DirSegments ==
  LET below == BelowApp(last.file, last.appDirectory)
  IN IF below = <<>> THEN <<>> ELSE SubSeq(below, 1, Len(below) - 1)
FileBase ==
  LET below == BelowApp(last.file, last.appDirectory)
  IN IF below = <<>> THEN <<>> ELSE below[Len(below)]

\* the latest call made no filesystem call, and the project has the files and
\* directories it had (the runner may have written the returned text back)
NotRelocated ==
  /\ last.ops = <<>>
  /\ dirs = last.dirsBefore
  /\ DOMAIN files = DOMAIN last.filesBefore

\* C11 (as claimed): excluded files are never relocated.  For a file with a
\* directory segment that starts with '@' or '_' the deriver returns "not
\* eligible" and the call makes no filesystem call.
C11_PrefixedSegmentExcludes ==
  (/\ Called
   /\ \E i \in 1..Len(DirSegments) : DirSegments[i][1] \in {"@", "_"})
    => /\ computeTanstackTargetPath(last.file, LastConfig) = Null
       /\ last.target = Null
       /\ NotRelocated

\* segment i is '@' or '_' followed by at least one more character
ExcludingSegment(i) ==
  Len(DirSegments[i]) >= 2 /\ DirSegments[i][1] \in {"@", "_"}

\* C11 (amended): for a file with a directory segment made of '@' or '_' and at
\* least one more character, the deriver returns "not eligible", the call makes
\* no filesystem call and returns the text with the edits of the enabled passes.
C11_ExcludedNeverRelocated ==
  (Called /\ \E i \in 1..Len(DirSegments) : ExcludingSegment(i))
    => /\ computeTanstackTargetPath(last.file, LastConfig) = Null
       /\ last.target = Null
       /\ NotRelocated
       /\ last.result = "text"
       /\ last.text = commitEdits(last.disk,
                                  MergedEdits(last.enabled, last.file, last.disk, 1))

\* a file below a parallel-route directory stayed in place with edited text
\* while the route-file-structure pass was enabled
C11_Witness ==
  /\ Called
  /\ \E i \in 1..Len(DirSegments) : ExcludingSegment(i) /\ DirSegments[i][1] = "@"
  /\ "route-file-structure" \in last.enabled
  /\ IsNamed(FileBase, <<"p","a","g","e">>)
  /\ last.result = "text"
  /\ last.text # last.disk
  /\ NotRelocated

\* the segment s with n characters taken off its front and m off its end
Inner(s, n, m) == SubSeq(s, n + 1, Len(s) - m)

\* what the claimed mapping makes of a directory segment: (name) -> _name,
\* [[...name]] and [...name] -> $, [name] -> $name, a plain name unchanged
SegmentImage(s) ==
  IF Len(s) > 2 /\ s[1] = "(" /\ s[Len(s)] = ")" THEN <<"_">> \o Inner(s, 1, 1)
  ELSE IF Len(s) > 7 /\ StartsWith(s, <<"[","[",".",".",".">>) /\ EndsWith(s, <<"]","]">>) THEN <<"$">>
  ELSE IF Len(s) > 5 /\ StartsWith(s, <<"[",".",".",".">>) /\ EndsWith(s, <<"]">>) THEN <<"$">>
  ELSE IF Len(s) > 2 /\ s[1] = "[" /\ s[Len(s)] = "]" THEN <<"$">> \o Inner(s, 1, 1)
  ELSE s

\* the segments of the latest call's file and target, and how many segments of
\* the file come before the app directory
FileSegments == Split(normalizePath(last.file), {"/"})
TargetSegments == Split(normalizePath(last.target), {"/"})
RoutesSegments == FilterBoolean(Split(last.routesDirectory, {"/", "\\"}))
PrefixLength ==
  Len(FileSegments) - Len(BelowApp(last.file, last.appDirectory))
    - Len(normalizeDirSegments(last.appDirectory))

\* C12: segment mapping of the deriver.  A target path keeps the segments before
\* the app directory, has the segments of the routes directory in place of the
\* app directory, then the image of every directory segment ((name) -> _name,
\* [...name] and [[...name]] -> $, [name] -> $name, others unchanged), then one
\* file name; it is spelled with the separator of the source path.
C12_SegmentMapping ==
  (Called /\ last.target # Null)
    => /\ Len(TargetSegments)
            = PrefixLength + Len(RoutesSegments) + Len(DirSegments) + 1
       /\ SubSeq(TargetSegments, 1, PrefixLength)
            = SubSeq(FileSegments, 1, PrefixLength)
       /\ SubSeq(TargetSegments, PrefixLength + 1, PrefixLength + Len(RoutesSegments))
            = RoutesSegments
       /\ \A i \in 1..Len(DirSegments) :
            TargetSegments[PrefixLength + Len(RoutesSegments) + i]
              = SegmentImage(DirSegments[i])
       /\ Includes(last.file, <<"\\">>) => ~Includes(last.target, <<"/">>)

\* a page below a route group and an optional catch-all was relocated
C12_Witness ==
  /\ Called
  /\ DirSegments = <<<<"(","g",")">>, <<"[","[",".",".",".","s","]","]">>>>
  /\ IsNamed(FileBase, <<"p","a","g","e">>)
  /\ OpsOf("write") # {}
  /\ Len(RoutesSegments) = 2
  /\ TargetSegments[Len(TargetSegments) - 1] = <<"$">>
  /\ TargetSegments[Len(TargetSegments) - 2] = <<"_","g">>

\* the file name base is <name>.<ext> with ext one of tsx, jsx, ts, js
Named(base, name) == \E e \in Exts : base = name \o <<".">> \o e

\* base with the name in front of the extension replaced
WithName(base, name, to) == to \o SubSeq(base, Len(name) + 1, Len(base))

\* what the claimed role mapping makes of a file name; Null for a name that is
\* none of the special names
RoleImage(base, direct) ==
  IF Named(base, <<"p","a","g","e">>) THEN WithName(base, <<"p","a","g","e">>, <<"i","n","d","e","x">>)
  ELSE IF Named(base, <<"l","a","y","o","u","t">>)
    THEN WithName(base, <<"l","a","y","o","u","t">>, IF direct THEN <<"_","_","r","o","o","t">> ELSE <<"_","l","a","y","o","u","t">>)
  ELSE IF Named(base, <<"l","o","a","d","i","n","g">>) THEN WithName(base, <<"l","o","a","d","i","n","g">>, <<"-","p","e","n","d","i","n","g">>)
  ELSE IF Named(base, <<"e","r","r","o","r">>) THEN WithName(base, <<"e","r","r","o","r">>, <<"-","e","r","r","o","r">>)
  ELSE IF Named(base, <<"n","o","t","-","f","o","u","n","d">>) THEN WithName(base, <<"n","o","t","-","f","o","u","n","d">>, <<"-","n","o","t","-","f","o","u","n","d">>)
  ELSE IF Named(base, <<"t","e","m","p","l","a","t","e">>) THEN WithName(base, <<"t","e","m","p","l","a","t","e">>, <<"-","t","e","m","p","l","a","t","e">>)
  ELSE IF Named(base, <<"r","o","u","t","e">>) THEN base
  ELSE Null

\* the branch of the latest call's file has plain directory names only
PlainBranch ==
  \A i \in 1..Len(DirSegments) : DirSegments[i][1] \notin {"(", "[", "@", "_"}

\* C13 (as claimed): filename role mapping.  The file name of a target is the
\* image of the source's special name (page -> index, layout -> __root directly
\* under the app root and _layout otherwise, loading -> -pending, error ->
\* -error, not-found -> -not-found, template -> -template, route unchanged); a
\* file with none of these names is not eligible and stays in place; a file
\* with one of them below plain directories is eligible.
C13_RoleMapping ==
  (Called /\ "route-file-structure" \in last.enabled)
    => /\ last.target # Null
            => TargetSegments[Len(TargetSegments)]
                 = RoleImage(FileBase, DirSegments = <<>>)
       /\ RoleImage(FileBase, FALSE) = Null
            => last.target = Null /\ NotRelocated
       /\ (RoleImage(FileBase, FALSE) # Null /\ PlainBranch) => last.target # Null

\* the role mapping with the name the claim leaves out: default -> -default
RoleImageOrDefault(base, direct) ==
  IF Named(base, <<"d","e","f","a","u","l","t">>) THEN WithName(base, <<"d","e","f","a","u","l","t">>, <<"-","d","e","f","a","u","l","t">>)
  ELSE RoleImage(base, direct)

\* C13 (amended): filename role mapping with default -> -default among the
\* special names.
C13_RoleMappingWithDefault ==
  (Called /\ "route-file-structure" \in last.enabled)
    => /\ last.target # Null
            => TargetSegments[Len(TargetSegments)]
                 = RoleImageOrDefault(FileBase, DirSegments = <<>>)
       /\ RoleImageOrDefault(FileBase, FALSE) = Null
            => last.target = Null /\ NotRelocated
       /\ (RoleImageOrDefault(FileBase, FALSE) # Null /\ PlainBranch)
            => last.target # Null

\* a nested layout was relocated to _layout with its extension
C13_Witness ==
  /\ Called
  /\ FileBase = <<"l","a","y","o","u","t",".","t","s","x">>
  /\ DirSegments = <<<<"a">>, <<"[","i","d","]">>>>
  /\ OpsOf("write") # {}
  /\ TargetSegments[Len(TargetSegments)] = <<"_","l","a","y","o","u","t",".","t","s","x">>

\* segment s is a route group: (name)
IsGroup(s) == Len(s) > 2 /\ s[1] = "(" /\ s[Len(s)] = ")"

\* the latest call's file is a layout or a template
LayoutLike == Named(FileBase, <<"l","a","y","o","u","t">>) \/ Named(FileBase, <<"t","e","m","p","l","a","t","e">>)

\* C17: exclusion of layouts in route groups.  A layout or template with no
\* private or parallel segment is not eligible exactly when a directory segment
\* is a route group and not every directory segment is one; with route groups
\* only it is eligible and mapped.
C17_GroupLayoutExclusion ==
  (/\ Called
   /\ "route-file-structure" \in last.enabled
   /\ LayoutLike
   /\ \A i \in 1..Len(DirSegments) : ~ExcludingSegment(i))
    => /\ last.target = Null
            <=> /\ \E i \in 1..Len(DirSegments) : IsGroup(DirSegments[i])
                /\ \E i \in 1..Len(DirSegments) : ~IsGroup(DirSegments[i])
       /\ last.target = Null => NotRelocated
       /\ (DirSegments # <<>> /\ \A i \in 1..Len(DirSegments) : IsGroup(DirSegments[i]))
            => /\ last.target # Null
               /\ TargetSegments[Len(TargetSegments)]
                    = RoleImageOrDefault(FileBase, FALSE)
               /\ \A i \in 1..Len(DirSegments) :
                    TargetSegments[Len(TargetSegments) - Len(DirSegments) - 1 + i]
                      = <<"_">> \o Inner(DirSegments[i], 1, 1)

\* a layout below a route group and a plain directory stayed in place
C17_Witness ==
  /\ Called
  /\ "route-file-structure" \in last.enabled
  /\ FileBase = <<"l","a","y","o","u","t",".","t","s","x">>
  /\ DirSegments = <<<<"(","g",")">>, <<"a">>>>
  /\ last.target = Null
  /\ last.result = "text"

(***************************************************************************)
(* Claims about pass enablement (checked under SpecToggles)                *)
(***************************************************************************)

\* the project config file of the world, as written
WrittenConfig ==
  LET found == {c \in DOMAIN world.confFiles : world.confFiles[c].kind = "json"}
  IN IF found = {} THEN EmptyConfig
     ELSE world.confFiles[CHOOSE c \in found : TRUE].config

\* the eight pass ids
KnownPassIds ==
  {"next-image", "next-link", "next-server-functions", "manual-migration-todos",
   "next-use-client", "route-file-structure", "route-groups", "api-routes"}

\* the three layers applied to a starting set: the deny-list removes, then the
\* booleans of the migrations map force in and out
DenyThenForce(start, config) ==
  LET denied == IF config.disabledMigrations.present
                THEN start \ config.disabledMigrations.ids ELSE start
      keys == DOMAIN config.migrations
  IN (denied \cup {id \in keys \cap KnownPassIds : config.migrations[id] = "true"})
       \ {id \in keys : config.migrations[id] = "false"}

\* C14 (as claimed): pass-enablement resolution.  The enabled set is the
\* allow-list when one is supplied (its known ids), else all known ids; minus
\* the deny-list; then forced by the migrations map.
C14_SuppliedAllowListIsBase ==
  Resolved =>
    /\ last.enabled =
         DenyThenForce(IF WrittenConfig.enabledMigrations.present
                       THEN WrittenConfig.enabledMigrations.ids \cap KnownPassIds
                       ELSE KnownPassIds,
                       WrittenConfig)
    /\ last.enabled \subseteq KnownPassIds

\* C14 (amended): the allow-list is the base only when it is supplied and not
\* empty; an empty allow-list leaves all known ids as the base.
C14_NonEmptyAllowListIsBase ==
  Resolved =>
    /\ last.enabled =
         DenyThenForce(IF /\ WrittenConfig.enabledMigrations.present
                          /\ WrittenConfig.enabledMigrations.ids # {}
                       THEN WrittenConfig.enabledMigrations.ids \cap KnownPassIds
                       ELSE KnownPassIds,
                       WrittenConfig)
    /\ last.enabled \subseteq KnownPassIds

\* the deny-list removed an id of the allow-list, and the map forced one id in
\* that the deny-list names and one id out that the allow-list names
C14_Witness ==
  /\ Resolved
  /\ WrittenConfig.enabledMigrations.ids = {"next-image", "foo"}
  /\ WrittenConfig.disabledMigrations.ids = {"next-image", "bar"}
  /\ DOMAIN WrittenConfig.migrations = {"next-image"}
  /\ last.enabled = {"next-image"}

(***************************************************************************)
(* Recovered failures: no delete API, unparsable project config            *)
(***************************************************************************)

\* how often the process has written warning w
Warned(w) == Cardinality({i \in 1..Len(console) : console[i] = w})

\* the runtime has neither fsp.unlink nor fsp.rm
NoDeleteApi == ~world.caps.unlink /\ ~world.caps.rm

\* the destination of the latest relocation was free, or held the output already
DestinationFree ==
  \/ Canon(last.target) \notin DOMAIN last.filesBefore
  \/ /\ world.caps.readFile
     /\ last.filesBefore[Canon(last.target)] = last.output

\* C15: no delete API is recovered.  With neither unlink nor rm, a relocation
\* whose destination is free does not raise; the destination holds the output
\* (written by this call when it was not there), no delete is made, the
\* original file is still in place with the text it had, and over the whole
\* process "Delete API unavailable" is written at most once.
C15_NoDeleteApiRecovered ==
  /\ Warned("Delete API unavailable") <= 1
  /\ (ReachedRelocation /\ NoDeleteApi /\ DestinationFree)
       => /\ last.result = "null"
          /\ last.error = "none"
          /\ Canon(last.target) \in DOMAIN files
          /\ files[Canon(last.target)] = last.output
          /\ Canon(last.target) \notin DOMAIN last.filesBefore
               => \E i \in OpsOf("write") : Canon(last.ops[i].path) = Canon(last.target)
          /\ OpsOf("delete") = {}
          /\ Canon(last.file) \in DOMAIN files
          /\ files[Canon(last.file)] = last.disk
          /\ hasLoggedDeleteWarning
          /\ Warned("Delete API unavailable") = 1

\* a second sweep relocates a file again without a delete API: its source was
\* kept by the first sweep, and the warning is not repeated
C15_Witness ==
  /\ run = 2
  /\ ReachedRelocation /\ NoDeleteApi /\ DestinationFree
  /\ last.result = "null"
  /\ Canon(last.file) \in DOMAIN files
  /\ Warned("Delete API unavailable") = 1

\* the project has a config file that does not parse to an object
UnparsableConfigFile ==
  \E c \in DOMAIN world.confFiles : world.confFiles[c].kind \in {"invalid", "nonobject"}

\* how often the process has written one of the two config warnings
ConfigWarnings == Warned("Invalid JSON config") + Warned("Could not read vite config")

\* C16: a config parse failure is recovered.  When the project config file is
\* there but is not valid JSON or not an object, the resolution ends normally
\* with what it gives without the file: all known passes enabled, app directory
\* app, the routes directory of the layers below the file; and over all the
\* files of the process the config warning is written at most once.
C16_ParseFailureRecovered ==
  /\ ConfigWarnings <= 1
  /\ (Resolved /\ UnparsableConfigFile)
       => /\ last.enabled = MigrationIdSet
          /\ last.appDirectory = <<"a","p","p">>
          /\ last.routesDirectory =
               ResolutionIn(<<SuppliedByParams, SuppliedByArgv, SuppliedByEnv>>)
          /\ hasLoggedConfigWarning
          /\ Warned("Invalid JSON config") = 1
          /\ Warned("Could not read vite config") = 0

\* both files of the project resolved under a config file that is not JSON and a
\* vite configuration that cannot be read
C16_Witness ==
  /\ Resolved
  /\ todo = {}
  /\ UnparsableConfigFile
  /\ \E c \in DOMAIN world.confFiles : world.confFiles[c].kind = "unreadable"
  /\ SuppliedByParams = <<>> /\ SuppliedByArgv = <<>> /\ SuppliedByEnv = <<>>
  /\ last.routesDirectory = <<"r","o","u","t","e","s">>
  /\ ConfigWarnings = 1
(***************************************************************************)
(* The merge of the passes' edits                                          *)
(***************************************************************************)

\* the merged edit list of the latest call
LastEdits == MergedEdits(last.enabled, last.file, last.disk, 1)

\* the nodes of the latest call's text that more than one merged edit targets
DuplicateTargets ==
  {n \in 1..Len(last.disk) :
     \E e, f \in 1..Len(LastEdits) : e # f /\ LastEdits[e].node = n /\ LastEdits[f].node = n}

\* the enabled passes of the latest call that replace node n
PassesOn(n) ==
  {id \in last.enabled :
     \E e \in 1..Len(PassEdits(id, last.file, last.disk)) :
       PassEdits(id, last.file, last.disk)[e].node = n}

\* every edit on node n is the one edit of a different pass
OnePerPass(n) ==
  Cardinality({e \in 1..Len(LastEdits) : LastEdits[e].node = n}) = Cardinality(PassesOn(n))

\* the text the latest call committed, where the call shows it unchanged
Committed == IF last.result = "text" THEN last.text ELSE last.output

\* the replacement of node n by the last of the merged edits that target it
LastReplacement(n) ==
  LastEdits[CHOOSE e \in 1..Len(LastEdits) :
              /\ LastEdits[e].node = n
              /\ \A f \in 1..Len(LastEdits) : LastEdits[f].node = n => f <= e].text

\* node by node: the last replacement where there is an edit, else the node
RECURSIVE LastWriteWins(_)
LastWriteWins(n) ==
  IF n > Len(last.disk) THEN <<>>
  ELSE (IF \E e \in 1..Len(LastEdits) : LastEdits[e].node = n
        THEN LastReplacement(n) ELSE <<last.disk[n]>>)
       \o LastWriteWins(n + 1)

\* C18 (as claimed): the duplicate-target policy.  When two enabled passes each
\* replace the same node, the committed text has at that node the replacement
\* of the pass that is later in the fixed order, and only that one.
C18_LaterPassWins ==
  (/\ Called
   /\ last.result # "raise"
   /\ DuplicateTargets # {}
   /\ \A n \in DuplicateTargets : OnePerPass(n)
   /\ ~(last.target # Null /\ isRootRouteTarget(last.target)))
    => Committed = LastWriteWins(1)

\* the results of the enabled passes of the latest call from MIGRATION_IDS[i]
\* on, concatenated in the fixed order
RECURSIVE FixedOrderEdits(_)
FixedOrderEdits(i) ==
  IF i > Len(MIGRATION_IDS) THEN <<>>
  ELSE (IF MIGRATION_IDS[i] \in last.enabled
        THEN PassEdits(MIGRATION_IDS[i], last.file, last.disk) ELSE <<>>)
       \o FixedOrderEdits(i + 1)

\* C19: deterministic merge order.  Whatever the order in which the passes
\* started together complete, the merged edit list of a call is the
\* concatenation of its enabled passes' results in the fixed order of
\* MIGRATION_IDS, made from the results of all of them, and the text the call
\* commits is the commit of that list.
C19_MergeInFixedOrder ==
  (Called /\ last.result # "raise")
    => /\ LastEdits = FixedOrderEdits(1)
       /\ ~(last.target # Null /\ isRootRouteTarget(last.target))
            => Committed = commitEdits(last.disk, FixedOrderEdits(1))

\* the last started pass completes first, and two passes of the call have edits
\* for one node
C19_Witness ==
  /\ world.completion = "reverse"
  /\ Called
  /\ last.result # "raise"
  /\ DuplicateTargets # {}
  /\ \A n \in DuplicateTargets : OnePerPass(n)
  /\ Committed = commitEdits(last.disk, FixedOrderEdits(1))
(***************************************************************************)
(* A move that was made before                                             *)
(***************************************************************************)

\* the latest relocation found its output at the target path already
AlreadyAtTarget ==
  /\ ReachedRelocation
  /\ Canon(last.target) \in DOMAIN last.filesBefore
  /\ last.filesBefore[Canon(last.target)] = last.output

\* no directory above the latest call's file and strictly below the app root is
\* left behind empty
NoEmptyAncestorLeft ==
  \A d \in last.dirsBefore :
    (/\ Under(Canon(last.file), d)
     /\ Under(d, AppRootOf(last.file, last.appDirectory))
     /\ EmptyDir(d))
      => d \notin dirs

\* C20 (as claimed): the already-completed move.  When a file with the output
\* as its content is at the target path, the relocation does not write the
\* target, deletes the source, prunes the source's empty ancestor directories
\* and ends normally, without a conflict error.
C20_CompletedMoveIsFinished ==
  (AlreadyAtTarget /\ world.caps.readFile /\ (world.caps.unlink \/ world.caps.rm)
   /\ world.rmFails = {})
    => /\ last.result = "null"
       /\ last.error = "none"
       /\ OpsOf("write") = {} /\ OpsOf("mkdir") = {}
       /\ files[Canon(last.target)] = last.output
       /\ DeletedSource
       /\ Canon(last.file) \notin DOMAIN files
       /\ NoEmptyAncestorLeft
(***************************************************************************)
(* The batch driver on a filesystem whose calls may be rejected            *)
(***************************************************************************)

\* the fs call that is rejected in a process ("none": all succeed)
IoFailures == {"none", "mkdir", "writeFile", "truncated", "unlink"}

IoWorlds == {[BaseWorld(s) EXCEPT !.ioFails = f] : s \in Styles, f \in IoFailures}

InitIo ==
  \E w \in IoWorlds, set \in FileSets :
    /\ world = w
    /\ files = FilesOf(w.style, set)
    /\ dirs = DirsOf(w.style, set)
    /\ routesDirCache = NoCache
    /\ projectConfigCache = NoCache
    /\ hasLoggedDeleteWarning = FALSE
    /\ hasLoggedConfigWarning = FALSE
    /\ console = <<>>
    /\ pipelines = NoPipelines
    /\ run = 1
    /\ todo = Enumerate(w.style, FilesOf(w.style, set))
    /\ clean = TRUE
    /\ last = NoCall(FilesOf(w.style, set), DirsOf(w.style, set))

SpecIo == InitIo /\ [][Next]_vars

\* the files there are after the first k filesystem calls of the latest call
RECURSIVE FilesAfter(_)
FilesAfter(k) ==
  IF k = 0 THEN DOMAIN last.filesBefore
  ELSE IF last.ops[k].op = "write" THEN FilesAfter(k - 1) \cup {last.ops[k].path}
  ELSE IF last.ops[k].op = "delete" THEN FilesAfter(k - 1) \ {last.ops[k].path}
  ELSE FilesAfter(k - 1)

\* the latest relocation found nothing at the target path
TargetWasFree ==
  /\ ReachedRelocation
  /\ normalizePath(last.file) # normalizePath(last.target)
  /\ Canon(last.target) \notin DOMAIN last.filesBefore
  /\ Canon(last.target) \notin DOMAIN world.confFiles

\* C21: relocation step order and no data loss.  With nothing at newPath the
\* filesystem calls of a relocation are, in this order, the creation of the
\* destination directory chain, the write to newPath, the deletion of the
\* source and the removals of the pruning; a call is made only when all
\* before it succeeded, so the source is deleted only with the output at
\* newPath, and after every call, a rejected one included, the file is at
\* oldPath or at newPath.
C21_StepOrderNoDataLoss ==
  TargetWasFree =>
    /\ \A k \in 1..Len(last.ops) :
         /\ k = 1 => last.ops[k] = [op |-> "mkdir", path |-> Canon(dirname(last.target))]
         /\ k = 2 => last.ops[k] = [op |-> "write", path |-> Canon(last.target)]
         /\ k = 3 => last.ops[k] = [op |-> "delete", path |-> Canon(last.file)]
         /\ k > 3 => last.ops[k].op = "rmdir"
    /\ \A k \in 0..Len(last.ops) :
         Canon(last.file) \in FilesAfter(k) \/ Canon(last.target) \in FilesAfter(k)
    /\ DeletedSource => files[Canon(last.target)] = last.output
    /\ Canon(last.file) \in DOMAIN files
         \/ (Canon(last.target) \in DOMAIN files /\ files[Canon(last.target)] = last.output)
    /\ Canon(last.file) \in DOMAIN files => files[Canon(last.file)] = last.disk
    /\ (world.ioFails = "none" /\ (world.caps.unlink \/ world.caps.rm))
         => last.result = "null" /\ Len(last.ops) >= 3
    /\ world.ioFails # "none" => last.result = "raise" /\ last.error = "io"

\* the write to newPath was rejected after the directory chain was made
C21_Witness ==
  /\ TargetWasFree
  /\ world.ioFails = "writeFile"
  /\ last.error = "io"
  /\ OpsOf("mkdir") # {}
  /\ Canon(last.file) \in DOMAIN files
  /\ Canon(last.target) \notin DOMAIN files
(***************************************************************************)
(* The passes of one call                                                  *)
(***************************************************************************)

\* the started passes of the latest call and the values Promise.all gave for them
LastTasks == Tasks(last.enabled, 1)
LastValues ==
  PromiseAllValues(LastTasks, last.file, last.disk, CompletionOrder(Len(LastTasks)))

DerivesOwnPath ==
  /\ Called
  /\ "route-file-structure" \in last.enabled
  /\ normalizeDirSegments(last.routesDirectory) = normalizeDirSegments(last.appDirectory)
  /\ BelowApp(last.file, last.appDirectory) # <<>>
  /\ IsNamed(BelowApp(last.file, last.appDirectory)[Len(BelowApp(last.file, last.appDirectory))],
             <<"r","o","u","t","e">>)
  /\ \A i \in 1..(Len(BelowApp(last.file, last.appDirectory)) - 1) :
       mapRouteSegment(BelowApp(last.file, last.appDirectory)[i])
         = BelowApp(last.file, last.appDirectory)[i]

\* C24: the same-path no-op.  When the derived target path is the original
\* path, no relocation is attempted: the deriver returns no target, the call
\* makes no filesystem call, no file or directory is added or removed and,
\* when no pass raises, the call returns the committed text, which the runner
\* puts in the file in place.
C24_SamePathNoOp ==
  DerivesOwnPath =>
    /\ last.target = Null
    /\ computeTanstackTargetPath(last.file, LastConfig) = Null
    /\ last.ops = <<>>
    /\ dirs = last.dirsBefore
    /\ DOMAIN files = DOMAIN last.filesBefore
    /\ \A c \in DOMAIN files : c # Canon(last.file) => files[c] = last.filesBefore[c]
    /\ last.thrown \in last.enabled => files = last.filesBefore
    /\ last.thrown \notin last.enabled
         => /\ last.result = "text"
            /\ last.text = commitEdits(last.disk, LastEdits)
            /\ ~DryRunRequested => files[Canon(last.file)] = last.text

\* an API handler under a plain directory, the routes directory being app
C24_Witness ==
  /\ DerivesOwnPath
  /\ last.result = "text"
  /\ last.text # last.disk
  /\ ~DryRunRequested
(***************************************************************************)
(* Template files                                                          *)
(***************************************************************************)

\* how often the template TODO comment is in a text
TemplateTodos(text) == Cardinality({i \in 1..Len(text) : HasTemplateTodo(text[i])})

\* the latest call relocated a template.<ext> file to -template.<ext>
RelocatedTemplate ==
  /\ ReachedRelocation
  /\ last.result = "null"
  /\ IsNamed(FileBase, <<"t","e","m","p","l","a","t","e">>)
  /\ \E e \in Exts : EndsWith(normalizePath(last.target), <<"/","-","t","e","m","p","l","a","t","e",".">> \o e)
  /\ Canon(last.target) \in DOMAIN files

\* C26 (as claimed): template files are always flagged.  The text at the target
\* of every relocated template.<ext> file has the template TODO comment, once.
C26_TemplateAlwaysFlagged ==
  RelocatedTemplate =>
    /\ files[Canon(last.target)] = last.output
    /\ TemplateTodos(last.output) = 1
(***************************************************************************)
(* The dry run as a preview                                                *)
(***************************************************************************)

\* the text commitEdits gives for the latest call
CommitResult == commitEdits(last.disk, LastEdits)

\* C28 (as claimed): dry-run fidelity.  For a file with a derived target the
\* call returns in a dry run, and writes to the target path otherwise, one and
\* the same text: the commit of the merged edits of the file.
C28_DryRunFidelity ==
  /\ (Called /\ DryRunRequested /\ last.result = "text"
      /\ computeTanstackTargetPath(last.file, LastConfig) # Null)
       => last.text = CommitResult
  /\ (ReachedRelocation /\ last.result = "null"
      /\ \E i \in OpsOf("write") : last.ops[i].path = Canon(last.target))
       => files[Canon(last.target)] = CommitResult
(***************************************************************************)
(* The route path of the pass and of the checker                           *)
(***************************************************************************)

\* the latest call's file has "/app/" in its name, the app directory is app and
\* the deriver gave a target other than the root declaration
RelocatesUnderApp ==
  /\ Called
  /\ last.appDirectory = <<"a","p","p">>
  /\ Includes(last.file, <<"/","a","p","p","/">>)
  /\ last.target # Null
  /\ ~isRootRouteTarget(last.target)

\* C29 (as claimed): the pass and the checker agree.  For every such file the
\* route path of the route-file-structure pass is the route path the checker
\* expects, and the checker does not reject the text.
C29_PassAndCheckerAgree ==
  RelocatesUnderApp =>
    /\ calculateTanstackRoute(last.file)
         = computeExpectedRoutePathFromSourcePath(last.file, LastConfig)
    /\ last.error # "mismatch"

\* the first segment of the latest call's file below the app directory is api
UnderApi ==
  /\ BelowApp(last.file, last.appDirectory) # <<>>
  /\ BelowApp(last.file, last.appDirectory)[1] = <<"a","p","i">>

\* C29 (amended): the pass and the checker agree outside the API folder.  For
\* every such file the checker expects no route path when the file's first
\* segment below app is api, and else the route path of the route-file-structure
\* pass; in both cases the checker does not reject the text.
C29_PassAndCheckerAgreeOutsideApi ==
  RelocatesUnderApp =>
    /\ UnderApi => computeExpectedRoutePathFromSourcePath(last.file, LastConfig) = Null
    /\ ~UnderApi => calculateTanstackRoute(last.file)
                      = computeExpectedRoutePathFromSourcePath(last.file, LastConfig)
    /\ last.error # "mismatch"

\* a page below a route group and an optional catch-all was relocated with the
\* route path of the pass in its text
C29_Witness ==
  /\ RelocatesUnderApp
  /\ ~UnderApi
  /\ BelowApp(last.file, last.appDirectory) = <<<<"(","g",")">>, <<"[","[",".",".",".","s","]","]">>, <<"p","a","g","e",".","t","s","x">>>>
  /\ last.result = "null"
  /\ FirstFileRouteLiteral(last.output) = calculateTanstackRoute(last.file)
  /\ calculateTanstackRoute(last.file) = <<"/","_","g","/","$">>
(***************************************************************************)
(* The checker has nothing to compare                                      *)
(***************************************************************************)

\* the latest call got as far as assertCreateFileRoutePathMatch, for a target
\* that is not the root route
CheckedNonRootTarget ==
  /\ Called
  /\ ~DryRunRequested
  /\ last.target # Null
  /\ last.error # "pass"
  /\ ~isRootRouteTarget(last.target)

\* the text to be written has no createFileRoute('<literal>'), or it has
\* createRootRoute(, or the file is in the API folder
NothingToCompare ==
  \/ FirstFileRouteLiteral(last.output) = Null
  \/ UsesCreateRootRoute(last.output)
  \/ UnderApi

\* C30: the checker passes vacuously without a declaration.  For a target that
\* is not the root route, a text to be written without a createFileRoute
\* literal, or with createRootRoute(, or of a file whose first segment below
\* the app root is api, is not rejected by assertCreateFileRoutePathMatch; the
\* text is the committed one, and with the destination free the file is
\* relocated: the text is at the target and, the runtime having a delete call,
\* the original is gone.
C30_CheckerPassesVacuously ==
  CheckedNonRootTarget /\ NothingToCompare =>
    /\ assertCreateFileRoutePathMatch(last.file, last.target, last.output, LastConfig) = "none"
    /\ last.error \notin {"root", "mismatch"}
    /\ last.output = commitEdits(last.disk, LastEdits)
    /\ DestinationFree =>
         /\ last.result = "null"
         /\ Canon(last.target) \in DOMAIN files
         /\ files[Canon(last.target)] = last.output
         /\ (world.caps.unlink \/ world.caps.rm) /\ Canon(last.file) # Canon(last.target)
              => Canon(last.file) \notin DOMAIN files

\* a route handler of the API folder relocated with a declared route path that
\* is not the one of its path
C30_Witness ==
  /\ CheckedNonRootTarget
  /\ UnderApi
  /\ ~UsesCreateRootRoute(last.output)
  /\ FirstFileRouteLiteral(last.output) = <<"/","w","r","o","n","g">>
  /\ last.result = "null"
  /\ files[Canon(last.target)] = last.output
(***************************************************************************)
(* The batch driver running the files of a project concurrently: every     *)
(* transform call is a pipeline that advances from one await to the next,  *)
(* and the pipelines of a process interleave at those points.  The module  *)
(* state (the two caches, the two warning flags) and the filesystem are    *)
(* shared.  A cache holds promises: an entry is pending from the moment    *)
(* its loader is started until the loader settles.                         *)
(***************************************************************************)

\* a promise of projectConfigCache, of routesDirCache, that has not settled
PendingConfig == [pending |-> TRUE]
PendingDirectory == <<"<pending>">>

\* a pipeline the driver has not started.  pc is the await the pipeline is at,
\* text the text the runner read, dir the currentDir of the loop it is in,
\* loaders the caches it has started a loader for, ops its filesystem calls.
NotStarted ==
  [pc |-> "todo", text |-> <<>>, dir |-> <<>>, projectConfig |-> EmptyConfig,
   routesDirectory |-> Null, loaders |-> {}, commit |-> <<>>, target |-> Null,
   output |-> <<>>, error |-> "none", ops |-> <<>>]

\* the key of readProjectConfig
ProjectConfigKey(filename) == dirname(normalizePath(filename))

\* a faulty cache that takes the value only when the loader has settled
CacheLoaderWhenSettled(map, key, loader) == map

\* cache.set(cacheKey, loader), in the tick of the cache.get that missed
CacheLoader(map, key, loader) == MapSet(map, key, loader)

\* a faulty pass of the loop that stops at an empty parent only
NearestStepToEmptyParent(fs, currentDir, candidates) ==
  LET found == FirstCandidate(fs, currentDir, candidates, 1)
      parent == dirname(currentDir)
  IN IF found # Null THEN [done |-> TRUE, found |-> found, dir |-> currentDir]
     ELSE IF parent = <<>> THEN [done |-> TRUE, found |-> Null, dir |-> currentDir]
     ELSE [done |-> FALSE, found |-> Null, dir |-> parent]

\* one pass of the while loop of findNearestFile: the candidates of currentDir,
\* then the break or the step to the parent
NearestStep(fs, currentDir, candidates) ==
  LET found == FirstCandidate(fs, currentDir, candidates, 1)
      parent == dirname(currentDir)
  IN IF found # Null THEN [done |-> TRUE, found |-> found, dir |-> currentDir]
     ELSE IF parent = <<>> \/ parent = <<".">> \/ parent = currentDir
       THEN [done |-> TRUE, found |-> Null, dir |-> currentDir]
     ELSE [done |-> FALSE, found |-> Null, dir |-> parent]

\* what the loader of readProjectConfig settles with, configFile found (or Null)
LoadedProjectConfig(configFile) ==
  LET source == IF configFile = Null THEN NullSource ELSE readTextFile(configFile)
      parsed == parseProjectConfigJson(source)
  IN [value |-> IF configFile = Null \/ source.kind = "null" \/ ~parsed.ok
                THEN EmptyConfig ELSE parsed.value,
      warned |-> configFile # Null /\ source.kind # "null" /\ ~parsed.ok]

\* what the loader of getConfiguredRoutesDirectory settles with
LoadedRoutesDirectory(configFile) ==
  LET source == IF configFile = Null THEN NullSource ELSE readTextFile(configFile)
      scanned == parseRoutesDirectoryFromViteConfig(source)
  IN [value |-> IF configFile = Null \/ source.kind = "null" THEN <<"r","o","u","t","e","s">>
                ELSE normalizeRoutesDirectory(IF Truthy(scanned) THEN scanned
                                              ELSE <<"r","o","u","t","e","s">>),
      warned |-> configFile # Null /\ source.kind = "null"]

\* getConfiguredRoutesDirectory up to its cache: the value it returns without
\* the cache, or else (value Null) the project root it guesses
RoutesDirectoryLookup(filename, projectConfig, override) ==
  LET configOverride == IF projectConfig.routesDirectory # Null
                        THEN normalizeRoutesDirectory(projectConfig.routesDirectory)
                        ELSE Null
      resolvedOverride == IF Truthy(override) THEN override ELSE getRoutesDirectoryOverride
      normalizedFilename == normalizePath(filename)
      appMarker == LastIndexOf(normalizedFilename,
                               <<"/">> \o ConfigAppDirectory(projectConfig) \o <<"/">>)
  IN IF Truthy(configOverride) THEN [value |-> configOverride, projectRootGuess |-> Null]
     ELSE IF Truthy(resolvedOverride)
       THEN [value |-> normalizeRoutesDirectory(resolvedOverride), projectRootGuess |-> Null]
     ELSE IF appMarker = -1 THEN [value |-> <<"r","o","u","t","e","s">>, projectRootGuess |-> Null]
     ELSE [value |-> Null,
           projectRootGuess |-> IF Slice(normalizedFilename, 0, appMarker) = <<>>
                                THEN <<".">> ELSE Slice(normalizedFilename, 0, appMarker)]

\* the key of routesDirCache for a file with this project config (Null: the
\* cache is not used)
RoutesDirectoryKey(filename, projectConfig) ==
  LET lookup == RoutesDirectoryLookup(filename, projectConfig,
                                      getRoutesDirectoryOverrideFromOptions(world.options))
  IN IF lookup.value # Null THEN Null ELSE normalizePath(lookup.projectRootGuess)

\* the ResolvedRuntimeConfig of a pipeline that has both values
RuntimeConfigOf(p) ==
  [routesDirectory |-> p.routesDirectory,
   appDirectory |-> ConfigAppDirectory(p.projectConfig),
   enabledMigrations |-> resolveEnabledMigrations(p.projectConfig)]

\* transform from the passes to the call of writeMovedFileAndDeleteOriginal:
\* the pipeline p of filename after it, the pass `thrown` raising if it is run
PassesOutcome(p, filename, thrown) ==
  Let(RuntimeConfigOf(p), LAMBDA runtimeConfig :
    IF PromiseAll(runtimeConfig.enabledMigrations, thrown)
    THEN [p EXCEPT !.pc = "raised", !.error = "pass"]
    ELSE
  Let(commitEdits(p.text, MergedEdits(runtimeConfig.enabledMigrations, filename, p.text, 1)),
      LAMBDA commitResult :
  Let(IF "route-file-structure" \in runtimeConfig.enabledMigrations
      THEN computeTanstackTargetPath(filename, runtimeConfig) ELSE Null,
      LAMBDA targetPath :
    IF ~isDryRun /\ Truthy(targetPath)
    THEN
  Let(IF isRootRouteTarget(targetPath) THEN normalizeRootRouteSource(commitResult)
      ELSE commitResult,
      LAMBDA output :
  Let(assertCreateFileRoutePathMatch(filename, targetPath, output, runtimeConfig),
      LAMBDA check :
    [p EXCEPT !.pc = IF check # "none" THEN "raised"
                     ELSE IF normalizePath(filename) = normalizePath(targetPath) THEN "done"
                     ELSE "accessTarget",
              !.error = check, !.commit = commitResult, !.target = targetPath,
              !.output = output]))
    ELSE [p EXCEPT !.pc = "returned", !.commit = commitResult, !.target = targetPath])))

\* the filesystem as a pipeline finds it at a call
FsNow ==
  [files |-> files, dirs |-> dirs, ops |-> <<>>,
   hasLoggedDeleteWarning |-> hasLoggedDeleteWarning, console |-> <<>>]

\* the filesystem call of pipeline f has left fs; the pipeline goes on at pc
\* with currentDir dir
FsCall(f, fs, pc, dir) ==
  /\ files' = fs.files
  /\ dirs' = fs.dirs
  /\ hasLoggedDeleteWarning' = fs.hasLoggedDeleteWarning
  /\ console' = console \o fs.console
  /\ pipelines' = [pipelines EXCEPT ![f] = [@ EXCEPT !.pc = pc, !.dir = dir,
                                                     !.ops = @ \o fs.ops]]
  /\ UNCHANGED <<world, routesDirCache, projectConfigCache, hasLoggedConfigWarning,
                 run, todo, clean, last>>

\* pipeline f goes on as p without a change of the shared state
Goes(f, p) ==
  /\ pipelines' = [pipelines EXCEPT ![f] = p]
  /\ UNCHANGED <<world, files, dirs, routesDirCache, projectConfigCache,
                 hasLoggedDeleteWarning, hasLoggedConfigWarning, console, run, todo,
                 clean, last>>

\* segments.slice(0, appIndex + appSegments.length).join("/") of
\* pruneEmptyRouteDirs, or Null when the app directory is not in the path
AppPath(filename, appDirectory) ==
  LET segments == FilterBoolean(Split(normalizePath(filename), {"/"}))
      appSegments == normalizeDirSegments(appDirectory)
      appIndex == findSubPathIndex(segments, appSegments)
  IN IF appIndex = -1 THEN Null
     ELSE Join(Slice(segments, 0, appIndex + Len(appSegments)), <<"/">>)

\* The runner reads f and calls transform, which runs into readProjectConfig:
\* the cache is read and, on a miss, the loader is started and cached.
Begin(f) ==
  /\ f \in todo
  /\ Canon(f) \in DOMAIN files
  /\ todo' = todo \ {f}
  /\ LET cacheKey == ProjectConfigKey(f)
         hit == cacheKey \in DOMAIN projectConfigCache
     IN /\ projectConfigCache' = IF hit THEN projectConfigCache
                                 ELSE CacheLoader(projectConfigCache, cacheKey, PendingConfig)
        /\ pipelines' = [pipelines EXCEPT ![f] =
             [@ EXCEPT !.pc = IF hit THEN "awaitProjectConfig" ELSE "findProjectConfig",
                       !.text = files[Canon(f)],
                       !.dir = normalizePath(cacheKey),
                       !.loaders = IF hit THEN @ ELSE @ \cup {"projectConfig"}]]
  /\ UNCHANGED <<world, files, dirs, routesDirCache, hasLoggedDeleteWarning,
                 hasLoggedConfigWarning, console, run, clean, last>>

\* the loader of readProjectConfig: one pass of findNearestFile and, at its
\* end, the read and the parse of the file found
FindProjectConfig(f) ==
  /\ pipelines[f].pc = "findProjectConfig"
  /\ LET step == NearestStep(FsNow, pipelines[f].dir, ProjectConfigNames)
         loaded == LoadedProjectConfig(step.found)
     IN IF ~step.done
        THEN /\ pipelines' = [pipelines EXCEPT ![f].dir = step.dir]
             /\ UNCHANGED <<projectConfigCache, hasLoggedConfigWarning, console>>
        ELSE /\ pipelines' = [pipelines EXCEPT ![f].pc = "awaitProjectConfig"]
             /\ projectConfigCache' =
                  MapSet(projectConfigCache, ProjectConfigKey(f), loaded.value)
             /\ hasLoggedConfigWarning' = (hasLoggedConfigWarning \/ loaded.warned)
             /\ console' = IF loaded.warned /\ ~hasLoggedConfigWarning
                           THEN Append(console, "Invalid JSON config") ELSE console
  /\ UNCHANGED <<world, files, dirs, routesDirCache, hasLoggedDeleteWarning, run, todo,
                 clean, last>>

\* await readProjectConfig(filename) has its value; resolveRuntimeConfig runs
\* into getConfiguredRoutesDirectory, up to its cache
AwaitProjectConfig(f) ==
  /\ pipelines[f].pc = "awaitProjectConfig"
  /\ ProjectConfigKey(f) \in DOMAIN projectConfigCache
  /\ projectConfigCache[ProjectConfigKey(f)] # PendingConfig
  /\ LET projectConfig == projectConfigCache[ProjectConfigKey(f)]
         lookup == RoutesDirectoryLookup(f, projectConfig,
                                         getRoutesDirectoryOverrideFromOptions(world.options))
         cacheKey == RoutesDirectoryKey(f, projectConfig)
         hit == cacheKey \in DOMAIN routesDirCache
     IN IF lookup.value # Null
        THEN /\ pipelines' = [pipelines EXCEPT ![f] =
                  [@ EXCEPT !.pc = "resolved", !.projectConfig = projectConfig,
                            !.routesDirectory = lookup.value]]
             /\ UNCHANGED routesDirCache
        ELSE /\ routesDirCache' = IF hit THEN routesDirCache
                                  ELSE CacheLoader(routesDirCache, cacheKey, PendingDirectory)
             /\ pipelines' = [pipelines EXCEPT ![f] =
                  [@ EXCEPT !.pc = IF hit THEN "awaitRoutesDirectory" ELSE "findViteConfig",
                            !.projectConfig = projectConfig,
                            !.dir = normalizePath(lookup.projectRootGuess),
                            !.loaders = IF hit THEN @ ELSE @ \cup {"routesDirectory"}]]
  /\ UNCHANGED <<world, files, dirs, projectConfigCache, hasLoggedDeleteWarning,
                 hasLoggedConfigWarning, console, run, todo, clean, last>>

\* the loader of getConfiguredRoutesDirectory: one pass of findNearestFile and,
\* at its end, the read and the scan of the file found
FindViteConfig(f) ==
  /\ pipelines[f].pc = "findViteConfig"
  /\ LET step == NearestStep(FsNow, pipelines[f].dir, ViteConfigNames)
         loaded == LoadedRoutesDirectory(step.found)
     IN IF ~step.done
        THEN /\ pipelines' = [pipelines EXCEPT ![f].dir = step.dir]
             /\ UNCHANGED <<routesDirCache, hasLoggedConfigWarning, console>>
        ELSE /\ pipelines' = [pipelines EXCEPT ![f].pc = "awaitRoutesDirectory"]
             /\ routesDirCache' =
                  MapSet(routesDirCache,
                         RoutesDirectoryKey(f, pipelines[f].projectConfig), loaded.value)
             /\ hasLoggedConfigWarning' = (hasLoggedConfigWarning \/ loaded.warned)
             /\ console' = IF loaded.warned /\ ~hasLoggedConfigWarning
                           THEN Append(console, "Could not read vite config") ELSE console
  /\ UNCHANGED <<world, files, dirs, projectConfigCache, hasLoggedDeleteWarning, run, todo,
                 clean, last>>

\* await getConfiguredRoutesDirectory(...) has its value
AwaitRoutesDirectory(f) ==
  /\ pipelines[f].pc = "awaitRoutesDirectory"
  /\ LET cacheKey == RoutesDirectoryKey(f, pipelines[f].projectConfig)
     IN /\ cacheKey \in DOMAIN routesDirCache
        /\ routesDirCache[cacheKey] # PendingDirectory
        /\ Goes(f, [pipelines[f] EXCEPT !.pc = "resolved",
                                        !.routesDirectory = routesDirCache[cacheKey]])

\* the passes, the commit of their edits, the target path and the checker
RunPasses(f, thrown) ==
  /\ pipelines[f].pc = "resolved"
  /\ \E p \in {PassesOutcome(pipelines[f], f, thrown)} : Goes(f, p)

\* transform has returned the text; the runner writes it to the file unless
\* the run is a dry run
WriteBack(f) ==
  /\ pipelines[f].pc = "returned"
  /\ FsCall(f, IF isDryRun THEN FsNow
               ELSE [FsNow EXCEPT !.files = MapSet(@, Canon(f), pipelines[f].commit)],
            "done", pipelines[f].dir)

\* await existsFile(newPath)
AccessTarget(f) ==
  /\ pipelines[f].pc = "accessTarget"
  /\ Goes(f, IF ~existsFile(FsNow, pipelines[f].target)
             THEN [pipelines[f] EXCEPT !.pc = "makeDirectory"]
             ELSE IF world.caps.readFile THEN [pipelines[f] EXCEPT !.pc = "readTarget"]
             ELSE [pipelines[f] EXCEPT !.pc = "raised", !.error = "conflict"])

\* await readFn(newPath, "utf8") and the comparison with the output
ReadTarget(f) ==
  /\ pipelines[f].pc = "readTarget"
  /\ Goes(f, IF ~existsFile(FsNow, pipelines[f].target)
             THEN [pipelines[f] EXCEPT !.pc = "raised", !.error = "io"]
             ELSE IF /\ Canon(pipelines[f].target) \in DOMAIN files
                     /\ files[Canon(pipelines[f].target)] = pipelines[f].output
               THEN [pipelines[f] EXCEPT !.pc = "accessSource"]
             ELSE [pipelines[f] EXCEPT !.pc = "raised", !.error = "conflict"])

\* await fsp.mkdir(dirname(newPath), { recursive: true })
MakeDirectory(f) ==
  /\ pipelines[f].pc = "makeDirectory"
  /\ FsCall(f, Mkdir(FsNow, dirname(pipelines[f].target)), "writeTarget", pipelines[f].dir)

\* await fsp.writeFile(newPath, output, "utf8")
WriteTarget(f) ==
  /\ pipelines[f].pc = "writeTarget"
  /\ FsCall(f, WriteFile(FsNow, pipelines[f].target, pipelines[f].output),
            "accessSource", pipelines[f].dir)

\* await existsFile(oldPath)
AccessSource(f) ==
  /\ pipelines[f].pc = "accessSource"
  /\ Goes(f, [pipelines[f] EXCEPT !.pc = IF existsFile(FsNow, f) THEN "deleteSource"
                                         ELSE "done"])

\* await tryDeleteFile(oldPath), and pruneEmptyRouteDirs up to its loop
DeleteSource(f) ==
  /\ pipelines[f].pc = "deleteSource"
  /\ FsCall(f, tryDeleteFile(FsNow, f),
            IF AppPath(f, RuntimeConfigOf(pipelines[f]).appDirectory) = Null THEN "done"
            ELSE "prune",
            dirname(normalizePath(f)))

\* one pass of the while loop of pruneEmptyRouteDirs
PruneStep(f) ==
  /\ pipelines[f].pc = "prune"
  /\ LET currentDir == pipelines[f].dir
         appPath == AppPath(f, RuntimeConfigOf(pipelines[f]).appDirectory)
         removed == tryDeleteDirIfEmpty(FsNow, currentDir)
     IN IF /\ currentDir # <<>>
           /\ currentDir # <<".">>
           /\ currentDir # appPath
           /\ StartsWith(currentDir, appPath \o <<"/">>)
        THEN FsCall(f, removed.fs, IF removed.ok THEN "prune" ELSE "done",
                    IF removed.ok THEN dirname(currentDir) ELSE currentDir)
        ELSE FsCall(f, FsNow, "done", currentDir)

\* the processes of the interleaved runs: each spelling of the filenames, the
\* project at the filesystem root, and the runtime and the configuration varied
InterleavedWorlds ==
  {BaseWorld(s) : s \in Styles \cup {"root"}}
    \cup {[BaseWorld("abs") EXCEPT !.faulty = "route-file-structure"],
          [BaseWorld("abs") EXCEPT !.argv = <<<<"-","-","d","r","y","-","r","u","n">>>>],
          [BaseWorld("rel") EXCEPT !.caps.unlink = FALSE, !.caps.rm = FALSE],
          [BaseWorld("abs") EXCEPT !.caps.readFile = FALSE],
          [BaseWorld("abs") EXCEPT !.confFiles =
             ProjectConfigFile("abs", [EmptyConfig EXCEPT !.routesDirectory = <<"s","r","c","/","p","a","g","e","s">>])],
          [BaseWorld("abs") EXCEPT !.confFiles =
             ConfAtRoot("abs", <<".","n","e","x","t","-","t","o","-","s","t","a","r","t",".","c","o","d","e","m","o","d",".","j","s","o","n">>, InvalidJsonFile)],
          [BaseWorld("win") EXCEPT !.confFiles =
             ConfAtRoot("win", <<"v","i","t","e",".","c","o","n","f","i","g",".","t","s">>, ViteFile(<<"s","r","c","/","r","o","u","t","e","s">>))],
          [BaseWorld("rel") EXCEPT !.confFiles =
             ConfAtRoot("rel", <<"v","i","t","e",".","c","o","n","f","i","g",".","m","j","s">>, [ViteFile(Null) EXCEPT !.kind = "unreadable"])]}

\* projects of two files: two sources of one target with different and with
\* equal texts, two files of one directory, nested directories, a checker
\* mismatch beside a page
InterleavedFileSets ==
  { TwoFiles(<<"a","p","p","/","[",".",".",".","s","]","/","p","a","g","e",".","t","s","x">>, TextPool[1], <<"a","p","p","/","[","[",".",".",".","s","]","]","/","p","a","g","e",".","t","s","x">>, TextPool[2]),
    TwoFiles(<<"a","p","p","/","[",".",".",".","s","]","/","p","a","g","e",".","t","s","x">>, TextPool[1], <<"a","p","p","/","[","[",".",".",".","s","]","]","/","p","a","g","e",".","t","s","x">>, TextPool[1]),
    TwoFiles(<<"a","p","p","/","a","/","p","a","g","e",".","t","s","x">>, TextPool[1], <<"a","p","p","/","a","/","l","a","y","o","u","t",".","t","s","x">>, TextPool[3]),
    TwoFiles(<<"a","p","p","/","a","/","b","/","p","a","g","e",".","t","s","x">>, TextPool[1], <<"a","p","p","/","a","/","p","a","g","e",".","t","s","x">>, TextPool[1]),
    TwoFiles(<<"a","p","p","/","a","/","p","a","g","e",".","t","s","x">>, TextPool[4], <<"a","p","p","/","b","/","c","/","p","a","g","e",".","t","s","x">>, TextPool[1]) }

\* the process at its start in the project `set` of world w
InterleavedStart(w, set) ==
  /\ world = w
  /\ files = FilesOf(w.style, set)
  /\ dirs = DirsOf(w.style, set)
  /\ routesDirCache = NoCache
  /\ projectConfigCache = NoCache
  /\ hasLoggedDeleteWarning = FALSE
  /\ hasLoggedConfigWarning = FALSE
  /\ console = <<>>
  /\ run = 1
  /\ todo = Enumerate(w.style, FilesOf(w.style, set))
  /\ clean = TRUE
  /\ last = NoCall(FilesOf(w.style, set), DirsOf(w.style, set))
  /\ pipelines = [f \in Enumerate(w.style, FilesOf(w.style, set)) |-> NotStarted]

InitInterleaved ==
  \E w \in InterleavedWorlds, set \in InterleavedFileSets : InterleavedStart(w, set)

\* the starts of the runs checked under fairness: a checker mismatch beside a
\* page for a relative, an absolute, a root and a Windows drive path, two
\* sources of one target, a dry run, a pass that raises, a source that cannot
\* be deleted
FairStarts ==
  {<<BaseWorld(s), TwoFiles(<<"a","p","p","/","a","/","p","a","g","e",".","t","s","x">>, TextPool[4], <<"a","p","p","/","b","/","c","/","p","a","g","e",".","t","s","x">>, TextPool[1])>> :
     s \in Styles \cup {"root"}}
    \cup {<<BaseWorld("abs"),
            TwoFiles(<<"a","p","p","/","[",".",".",".","s","]","/","p","a","g","e",".","t","s","x">>, TextPool[1], <<"a","p","p","/","[","[",".",".",".","s","]","]","/","p","a","g","e",".","t","s","x">>, TextPool[2])>>,
          <<[BaseWorld("abs") EXCEPT !.argv = <<<<"-","-","d","r","y","-","r","u","n">>>>],
            TwoFiles(<<"a","p","p","/","a","/","b","/","p","a","g","e",".","t","s","x">>, TextPool[1], <<"a","p","p","/","a","/","p","a","g","e",".","t","s","x">>, TextPool[1])>>,
          <<[BaseWorld("abs") EXCEPT !.faulty = "route-file-structure"],
            TwoFiles(<<"a","p","p","/","a","/","p","a","g","e",".","t","s","x">>, TextPool[1], <<"a","p","p","/","a","/","l","a","y","o","u","t",".","t","s","x">>, TextPool[3])>>,
          <<[BaseWorld("rel") EXCEPT !.caps.unlink = FALSE, !.caps.rm = FALSE],
            TwoFiles(<<"a","p","p","/","a","/","b","/","p","a","g","e",".","t","s","x">>, TextPool[1], <<"a","p","p","/","a","/","p","a","g","e",".","t","s","x">>, TextPool[1])>>}

InitFair == \E start \in FairStarts : InterleavedStart(start[1], start[2])

NextInterleaved ==
  \/ \E f \in DOMAIN pipelines : Begin(f)
  \/ \E f \in DOMAIN pipelines : FindProjectConfig(f)
  \/ \E f \in DOMAIN pipelines : AwaitProjectConfig(f)
  \/ \E f \in DOMAIN pipelines : FindViteConfig(f)
  \/ \E f \in DOMAIN pipelines : AwaitRoutesDirectory(f)
  \/ \E f \in DOMAIN pipelines : WriteBack(f)
  \/ \E f \in DOMAIN pipelines : AccessTarget(f)
  \/ \E f \in DOMAIN pipelines : ReadTarget(f)
  \/ \E f \in DOMAIN pipelines : MakeDirectory(f)
  \/ \E f \in DOMAIN pipelines : WriteTarget(f)
  \/ \E f \in DOMAIN pipelines : AccessSource(f)
  \/ \E f \in DOMAIN pipelines : DeleteSource(f)
  \/ \E f \in DOMAIN pipelines : PruneStep(f)
  \/ \E f \in DOMAIN pipelines, thrown \in {"none", world.faulty} : RunPasses(f, thrown)

SpecInterleaved == InitInterleaved /\ [][NextInterleaved]_vars

\* the scheduler runs a pipeline that can go on: every promise that can settle
\* settles
FairInterleaved == InitFair /\ [][NextInterleaved]_vars /\ WF_vars(NextInterleaved)
(***************************************************************************)
(* Two concurrent relocations to one target                                *)
(***************************************************************************)

\* pipeline f has returned or raised
Finished(f) == pipelines[f].pc \in {"done", "raised"}

\* pipeline f has called writeMovedFileAndDeleteOriginal
Relocating(f) ==
  /\ pipelines[f].target # Null
  /\ ~isDryRun
  /\ pipelines[f].error \notin {"pass", "root", "mismatch"}
  /\ pipelines[f].pc \notin {"todo", "findProjectConfig", "awaitProjectConfig",
                             "findViteConfig", "awaitRoutesDirectory", "resolved"}

\* pipeline f has written its target
WroteTarget(f) ==
  \E i \in 1..Len(pipelines[f].ops) :
    /\ pipelines[f].ops[i].op = "write"
    /\ pipelines[f].ops[i].path = Canon(pipelines[f].target)

\* f and g are two finished relocations to one target path with different texts
RivalRelocations(f, g) ==
  /\ f # g
  /\ Finished(f) /\ Finished(g)
  /\ Relocating(f) /\ Relocating(g)
  /\ Canon(pipelines[f].target) = Canon(pipelines[g].target)
  /\ pipelines[f].output # pipelines[g].output

\* C27 (as claimed): no overwrite under concurrent relocation.  Of two
\* pipelines that run concurrently and derive one target path with different
\* texts, in every interleaving at most one writes the destination, the other
\* fails with the conflict error, the source file of the failing one is not
\* deleted, and the destination holds the text of the one that wrote it.
C27_NoOverwriteUnderConcurrency ==
  \A f, g \in DOMAIN pipelines :
    RivalRelocations(f, g) =>
      /\ ~(WroteTarget(f) /\ WroteTarget(g))
      /\ pipelines[f].error = "conflict" \/ pipelines[g].error = "conflict"
      /\ pipelines[f].error = "conflict" => Canon(f) \in DOMAIN files
      /\ WroteTarget(f) => /\ Canon(pipelines[f].target) \in DOMAIN files
                           /\ files[Canon(pipelines[f].target)] = pipelines[f].output
(***************************************************************************)
(* The caches under interleaving                                           *)
(***************************************************************************)

\* pipeline f has the value of its await readProjectConfig(filename)
HasProjectConfig(f) ==
  pipelines[f].pc \notin {"todo", "findProjectConfig", "awaitProjectConfig"}

\* pipeline f has the value of its await getConfiguredRoutesDirectory(...)
HasRoutesDirectory(f) == pipelines[f].routesDirectory # Null

\* the key of routesDirCache pipeline f uses (Null: none)
RoutesKeyOf(f) ==
  IF HasProjectConfig(f) THEN RoutesDirectoryKey(f, pipelines[f].projectConfig) ELSE Null

\* the module state of a process that has resolved nothing yet
FreshModuleState ==
  [routesDirCache |-> NoCache, projectConfigCache |-> NoCache,
   hasLoggedConfigWarning |-> FALSE, console |-> <<>>]

\* C22: cache convergence.  In every interleaving of the pipelines of a
\* process, the loader of a key of projectConfigCache and of routesDirCache is
\* started by at most one pipeline, the pipelines of one key obtain one value,
\* and the configuration a pipeline has resolved, cache hit or not, is the one
\* the precedence chain gives for its file with empty caches.
C22_CacheConvergence ==
  /\ \A f, g \in DOMAIN pipelines :
       /\ f # g /\ ProjectConfigKey(f) = ProjectConfigKey(g)
            => /\ ~("projectConfig" \in pipelines[f].loaders
                    /\ "projectConfig" \in pipelines[g].loaders)
               /\ HasProjectConfig(f) /\ HasProjectConfig(g)
                    => pipelines[f].projectConfig = pipelines[g].projectConfig
       /\ f # g /\ RoutesKeyOf(f) # Null /\ RoutesKeyOf(f) = RoutesKeyOf(g)
            => /\ ~("routesDirectory" \in pipelines[f].loaders
                    /\ "routesDirectory" \in pipelines[g].loaders)
               /\ HasRoutesDirectory(f) /\ HasRoutesDirectory(g)
                    => pipelines[f].routesDirectory = pipelines[g].routesDirectory
  /\ \A f \in DOMAIN pipelines :
       pipelines[f].pc = "resolved"
         => RuntimeConfigOf(pipelines[f])
              = resolveRuntimeConfig(FsNow, FreshModuleState, f, world.options).value

\* two files of one directory: one pipeline has started both loaders, the other
\* has the same values from the caches, the routes directory being the one of
\* the vite configuration file
C22_Witness ==
  \E f, g \in DOMAIN pipelines :
    /\ f # g
    /\ ProjectConfigKey(f) = ProjectConfigKey(g)
    /\ pipelines[f].loaders = {"projectConfig", "routesDirectory"}
    /\ pipelines[g].loaders = {}
    /\ HasRoutesDirectory(f) /\ HasRoutesDirectory(g)
    /\ pipelines[g].routesDirectory = <<"s","r","c","/","r","o","u","t","e","s">>
    /\ RoutesKeyOf(f) = RoutesKeyOf(g)
(***************************************************************************)
(* Termination                                                             *)
(***************************************************************************)

\* every pipeline of the process has returned or raised
AllFinished == \A f \in DOMAIN pipelines : Finished(f)

\* the caches and the flags can be used by the next file: the flags are set or
\* not, and a promise that has not settled has its loader in findNearestFile
StateUsable ==
  /\ hasLoggedDeleteWarning \in BOOLEAN
  /\ hasLoggedConfigWarning \in BOOLEAN
  /\ \A k \in DOMAIN projectConfigCache :
       projectConfigCache[k] = PendingConfig
         => \E f \in DOMAIN pipelines : /\ pipelines[f].pc = "findProjectConfig"
                                        /\ ProjectConfigKey(f) = k
  /\ \A k \in DOMAIN routesDirCache :
       routesDirCache[k] = PendingDirectory
         => \E f \in DOMAIN pipelines : /\ pipelines[f].pc = "findViteConfig"
                                        /\ RoutesKeyOf(f) = k

\* C25: termination.  Every pipeline runs to completion or raises: the loop of
\* findNearestFile and the loop of pruneEmptyRouteDirs come to an end for
\* relative, absolute, root and Windows drive paths, and whatever a pipeline
\* raises, the caches and flags stay usable and the other pipelines finish.
C25_Termination == [](StateUsable) /\ <>[](AllFinished)

\* a Windows project: one pipeline has raised the route path mismatch, the
\* other has relocated its file and pruned a directory, both have finished
C25_Witness ==
  /\ AllFinished
  /\ world.style = "win"
  /\ \E f, g \in DOMAIN pipelines :
       /\ pipelines[f].pc = "raised"
       /\ pipelines[f].error = "mismatch"
       /\ pipelines[g].pc = "done"
       /\ WroteTarget(g)
       /\ \E i \in 1..Len(pipelines[g].ops) : pipelines[g].ops[i].op = "rmdir"

====
